---- MODULE Spec2Model ----
(***************************************************************************)
(* EmbedIDS detection engine (embedids.c): the context lifecycle, metric   *)
(* lookup, circular-buffer ingestion, per-metric and all-metrics analysis, *)
(* the trend heuristic and reset, as a state machine over the host-owned   *)
(* memory the engine reads and writes through the context.                 *)
(***************************************************************************)
EXTENDS Integers, Sequences, FiniteSets, TLC

VARIABLES
  context,         \* the embedids_context_t the host passes to every call
  system_configs,  \* host-owned embedids_system_config_t objects, by address
  metric_arrays,   \* host-owned embedids_metric_config_t arrays, by address
  buffers,         \* host-owned history buffers, by address
  detector_ctx,    \* custom detectors' mutable context (call counters), by address
  ret,             \* what the last call returned
  call,            \* the operation called last ("host": a direct write by the host)
  evaluated,       \* algorithm slots the last call dispatched, in order
  trend_out,       \* the caller's embedids_trend_t output variable
  added,           \* history: per metric, the samples accepted since it was empty
  validated,       \* history: the argument of the call, if it was a ValidateConfig
  described,       \* history: the code passed, if the call was a GetErrorString
  lifecycle,       \* history: the last successful init ("reinit" when it followed
                   \* another with no cleanup between) or cleanup of the context
  context2,        \* a second embedids_context_t, owned by a second host thread
  threads          \* per host thread: the call it is executing and where it is in it

vars == <<context, system_configs, metric_arrays, buffers, detector_ctx,
          ret, call, evaluated, trend_out, added, validated, described,
          lifecycle, context2, threads>>

-----------------------------------------------------------------------------
(* Bounds of the model *)

MaxCap == 3

MaxAdds == 5

MaxSamples == 2

MaxInvocations == 2

MaxTypedAdds == 3

MaxCalls == 2

MaxLifecycle == 2

-----------------------------------------------------------------------------
(* Pointers and result codes *)

NULL == 0

CTX == 1

\* validated when the last call was not embedids_validate_config
NOT_VALIDATED == -1

NULL_NAME == <<"NULL">>

EMBEDIDS_OK == "EMBEDIDS_OK"

EMBEDIDS_ERROR_INVALID_PARAM == "EMBEDIDS_ERROR_INVALID_PARAM"

EMBEDIDS_ERROR_NOT_INITIALIZED == "EMBEDIDS_ERROR_NOT_INITIALIZED"

EMBEDIDS_ERROR_ALREADY_INITIALIZED == "EMBEDIDS_ERROR_ALREADY_INITIALIZED"

EMBEDIDS_ERROR_METRIC_NOT_FOUND == "EMBEDIDS_ERROR_METRIC_NOT_FOUND"

EMBEDIDS_ERROR_METRIC_DISABLED == "EMBEDIDS_ERROR_METRIC_DISABLED"

EMBEDIDS_ERROR_METRIC_TYPE_MISMATCH == "EMBEDIDS_ERROR_METRIC_TYPE_MISMATCH"

EMBEDIDS_ERROR_THRESHOLD_EXCEEDED == "EMBEDIDS_ERROR_THRESHOLD_EXCEEDED"

EMBEDIDS_ERROR_CUSTOM_DETECTION == "EMBEDIDS_ERROR_CUSTOM_DETECTION"

EMBEDIDS_ERROR_TREND_ANOMALY == "EMBEDIDS_ERROR_TREND_ANOMALY"

EMBEDIDS_TREND_STABLE == "EMBEDIDS_TREND_STABLE"

EMBEDIDS_TREND_INCREASING == "EMBEDIDS_TREND_INCREASING"

EMBEDIDS_TREND_DECREASING == "EMBEDIDS_TREND_DECREASING"

EMBEDIDS_ERROR_CONFIG_INVALID == "EMBEDIDS_ERROR_CONFIG_INVALID"

EMBEDIDS_MAX_METRIC_NAME_LEN == 32

\* the ceiling of embedids_validate_config's capacity check; the header that
\* defines it is not part of the sources, so the value is taken to be that of
\* the name length limit
EMBEDIDS_MAX_METRICS == 32

FloatTypes == {"EMBEDIDS_METRIC_TYPE_FLOAT", "EMBEDIDS_METRIC_TYPE_PERCENTAGE",
               "EMBEDIDS_METRIC_TYPE_RATE"}

Mem == [context |-> context, system_configs |-> system_configs,
        metric_arrays |-> metric_arrays, buffers |-> buffers,
        detector_ctx |-> detector_ctx]

MinOf(S) == CHOOSE x \in S : \A y \in S : x <= y

Abs(x) == IF x < 0 THEN -x ELSE x

-----------------------------------------------------------------------------
(* Metric lookup *)

Prefix(s, n) == SubSeq(s, 1, IF Len(s) < n THEN Len(s) ELSE n)

\* strncmp(a, b, n) == 0 on NUL-terminated strings held as character sequences
strncmp_eq(a, b, n) == Prefix(a, n) = Prefix(b, n)

\* faulty variant: the scan keeps the last entry that matches
find_metric_config_last_match(M, c, metric_name) ==
  IF c = NULL \/ M.context.system_config = NULL THEN 0
  ELSE LET cfg == M.system_configs[M.context.system_config]
           hits == {i \in 1..cfg.num_active_metrics :
                      strncmp_eq(M.metric_arrays[cfg.metrics][i].metric.name,
                                 metric_name, EMBEDIDS_MAX_METRIC_NAME_LEN)}
       IN IF hits = {} THEN 0 ELSE CHOOSE x \in hits : \A y \in hits : y <= x

\* index (from 1) of the entry found, 0 for a NULL result
find_metric_config(M, c, metric_name) ==
  IF c = NULL \/ M.context.system_config = NULL THEN 0
  ELSE LET cfg == M.system_configs[M.context.system_config]
           hits == {i \in 1..cfg.num_active_metrics :
                      strncmp_eq(M.metric_arrays[cfg.metrics][i].metric.name,
                                 metric_name, EMBEDIDS_MAX_METRIC_NAME_LEN)}
       IN IF hits = {} THEN 0 ELSE MinOf(hits)

-----------------------------------------------------------------------------
(* Ingestion *)

\* faulty variant: the name is checked before the context
add_datapoint_status_name_first(M, c, metric_name) ==
  IF metric_name = NULL_NAME THEN EMBEDIDS_ERROR_INVALID_PARAM
  ELSE IF c = NULL \/ ~M.context.initialized THEN EMBEDIDS_ERROR_NOT_INITIALIZED
  ELSE LET i == find_metric_config(M, c, metric_name) IN
    IF i = 0 THEN EMBEDIDS_ERROR_METRIC_NOT_FOUND
    ELSE LET metric ==
               M.metric_arrays[M.system_configs[M.context.system_config].metrics][i].metric
         IN IF ~metric.enabled THEN EMBEDIDS_ERROR_METRIC_DISABLED
            ELSE IF metric.history = NULL THEN EMBEDIDS_ERROR_INVALID_PARAM
            ELSE EMBEDIDS_OK

\* faulty variant: the history buffer is checked before the enabled flag
add_datapoint_status_buffer_first(M, c, metric_name) ==
  IF c = NULL \/ ~M.context.initialized THEN EMBEDIDS_ERROR_NOT_INITIALIZED
  ELSE IF metric_name = NULL_NAME THEN EMBEDIDS_ERROR_INVALID_PARAM
  ELSE LET i == find_metric_config(M, c, metric_name) IN
    IF i = 0 THEN EMBEDIDS_ERROR_METRIC_NOT_FOUND
    ELSE LET metric ==
               M.metric_arrays[M.system_configs[M.context.system_config].metrics][i].metric
         IN IF metric.history = NULL THEN EMBEDIDS_ERROR_INVALID_PARAM
            ELSE IF ~metric.enabled THEN EMBEDIDS_ERROR_METRIC_DISABLED
            ELSE EMBEDIDS_OK

\* the result code of embedids_add_datapoint; EMBEDIDS_OK when the sample is stored
add_datapoint_status(M, c, metric_name) ==
  IF c = NULL \/ ~M.context.initialized THEN EMBEDIDS_ERROR_NOT_INITIALIZED
  ELSE IF metric_name = NULL_NAME THEN EMBEDIDS_ERROR_INVALID_PARAM
  ELSE LET i == find_metric_config(M, c, metric_name) IN
    IF i = 0 THEN EMBEDIDS_ERROR_METRIC_NOT_FOUND
    ELSE LET metric ==
               M.metric_arrays[M.system_configs[M.context.system_config].metrics][i].metric
         IN IF ~metric.enabled THEN EMBEDIDS_ERROR_METRIC_DISABLED
            ELSE IF metric.history = NULL THEN EMBEDIDS_ERROR_INVALID_PARAM
            ELSE EMBEDIDS_OK

\* faulty variant: the sample is written one slot past the cursor
ring_store_past_cursor(history, metric, value, timestamp_ms) ==
  [history EXCEPT ![((metric.write_index + 1) % metric.max_history_size) + 1] =
     [value |-> value, timestamp_ms |-> timestamp_ms]]

\* metric->history[metric->write_index] = {value, timestamp_ms}
ring_store(history, metric, value, timestamp_ms) ==
  [history EXCEPT ![metric.write_index + 1] =
     [value |-> value, timestamp_ms |-> timestamp_ms]]

\* faulty variant: the cursor advances without wrapping
next_write_index_no_wrap(metric) == metric.write_index + 1

next_write_index(metric) == (metric.write_index + 1) % metric.max_history_size

next_current_size(metric) ==
  IF metric.current_size < metric.max_history_size
  THEN metric.current_size + 1
  ELSE metric.current_size

\* what the unsigned remainder x % 0, undefined in C, does in a build: the division
\* traps and the process ends, or the divide instruction yields 0 for a zero
\* divisor and the remainder x - (x / 0) * 0 is the dividend
DivisionByZero == {"trap", "dividend"}

\* not a result code: the call did not return
PROCESS_TERMINATED == "PROCESS_TERMINATED"

\* faulty variant: a sample for a disabled metric is stored before it is refused
embedids_add_datapoint_stores_when_disabled(M, c, metric_name, value, timestamp_ms, div0) ==
  LET status == add_datapoint_status(M, c, metric_name) IN
  IF status \notin {EMBEDIDS_OK, EMBEDIDS_ERROR_METRIC_DISABLED}
  THEN [result |-> status, mem |-> M]
  ELSE LET a == M.system_configs[M.context.system_config].metrics
           i == find_metric_config(M, c, metric_name)
           metric == M.metric_arrays[a][i].metric
       IN IF metric.history = NULL \/ metric.max_history_size = 0
          THEN [result |-> status, mem |-> M]
          ELSE [result |-> status,
                mem |-> [M EXCEPT
                  !.buffers[metric.history] =
                     ring_store(@, metric, value, timestamp_ms),
                  !.metric_arrays[a][i].metric.write_index = next_write_index(metric),
                  !.metric_arrays[a][i].metric.current_size =
                     next_current_size(metric)]]

\* div0: the outcome of the remainder when max_history_size is 0. A store beyond
\* the end of the host's array leaves the modelled memory; the run ends there.
embedids_add_datapoint(M, c, metric_name, value, timestamp_ms, div0) ==
  LET status == add_datapoint_status(M, c, metric_name) IN
  IF status # EMBEDIDS_OK THEN [result |-> status, mem |-> M]
  ELSE LET a == M.system_configs[M.context.system_config].metrics
           i == find_metric_config(M, c, metric_name)
           metric == M.metric_arrays[a][i].metric
           stored == [M EXCEPT !.buffers[metric.history] =
                                  ring_store(@, metric, value, timestamp_ms)]
       IN IF metric.write_index >= Len(M.buffers[metric.history])
          THEN [result |-> PROCESS_TERMINATED, mem |-> M]
          ELSE IF metric.max_history_size = 0
          THEN IF div0 = "trap"
               THEN [result |-> PROCESS_TERMINATED, mem |-> stored]
               ELSE [result |-> EMBEDIDS_OK,
                     mem |-> [stored EXCEPT
                       !.metric_arrays[a][i].metric.write_index = metric.write_index + 1,
                       !.metric_arrays[a][i].metric.current_size =
                          next_current_size(metric)]]
          ELSE [result |-> EMBEDIDS_OK,
                mem |-> [stored EXCEPT
                  !.metric_arrays[a][i].metric.write_index = next_write_index(metric),
                  !.metric_arrays[a][i].metric.current_size = next_current_size(metric)]]

-----------------------------------------------------------------------------
(* Built-in and custom algorithms *)

\* faulty variant: a value equal to an enabled bound is reported
run_threshold_algorithm_inclusive(M, metric, config) ==
  IF metric.current_size = 0 THEN EMBEDIDS_OK
  ELSE LET latest_index == IF metric.write_index > 0
                           THEN metric.write_index - 1
                           ELSE metric.max_history_size - 1
           latest_value == M.buffers[metric.history][latest_index + 1].value
       IN IF metric.type = "EMBEDIDS_METRIC_TYPE_BOOL" THEN EMBEDIDS_OK
          ELSE IF config.check_min /\ latest_value <= config.min_threshold
          THEN EMBEDIDS_ERROR_THRESHOLD_EXCEEDED
          ELSE IF config.check_max /\ latest_value >= config.max_threshold
          THEN EMBEDIDS_ERROR_THRESHOLD_EXCEEDED
          ELSE EMBEDIDS_OK

\* faulty variant: the slot at the write cursor is judged, not the one before it
run_threshold_algorithm_at_cursor(M, metric, config) ==
  IF metric.current_size = 0 THEN EMBEDIDS_OK
  ELSE LET value == M.buffers[metric.history][metric.write_index + 1].value
       IN IF metric.type = "EMBEDIDS_METRIC_TYPE_BOOL" THEN EMBEDIDS_OK
          ELSE IF config.check_min /\ value < config.min_threshold
          THEN EMBEDIDS_ERROR_THRESHOLD_EXCEEDED
          ELSE IF config.check_max /\ value > config.max_threshold
          THEN EMBEDIDS_ERROR_THRESHOLD_EXCEEDED
          ELSE EMBEDIDS_OK

run_threshold_algorithm(M, metric, config) ==
  IF metric.current_size = 0 THEN EMBEDIDS_OK
  ELSE LET latest_index == IF metric.write_index > 0
                           THEN metric.write_index - 1
                           ELSE metric.max_history_size - 1
           latest_value == M.buffers[metric.history][latest_index + 1].value
       IN IF metric.type \in FloatTypes \cup {"EMBEDIDS_METRIC_TYPE_UINT32",
                                              "EMBEDIDS_METRIC_TYPE_UINT64",
                                              "EMBEDIDS_METRIC_TYPE_ENUM"}
          THEN IF config.check_min /\ latest_value < config.min_threshold
               THEN EMBEDIDS_ERROR_THRESHOLD_EXCEEDED
               ELSE IF config.check_max /\ latest_value > config.max_threshold
               THEN EMBEDIDS_ERROR_THRESHOLD_EXCEEDED
               ELSE EMBEDIDS_OK
          ELSE EMBEDIDS_OK

\* faulty variant: a window whose ends differ by more than max_slope is an anomaly
run_trend_algorithm_slope(M, metric, config) ==
  IF metric.current_size < config.window_size \/ config.window_size < 2
  THEN EMBEDIDS_OK
  ELSE IF Abs(M.buffers[metric.history][metric.current_size].value
              - M.buffers[metric.history][1].value) > config.max_slope
       THEN EMBEDIDS_ERROR_TREND_ANOMALY
       ELSE EMBEDIDS_OK

run_trend_algorithm(M, metric, config) ==
  IF metric.current_size < config.window_size \/ config.window_size < 2
  THEN EMBEDIDS_OK
  ELSE EMBEDIDS_OK

NULL_FN == "NULL"

\* the detectors of the test suite, applied to (metric, config, context)
custom_function(M, metric, custom) ==
  CASE custom.function = "type_checking_algorithm" ->
         [result |-> IF metric.type # "EMBEDIDS_METRIC_TYPE_FLOAT"
                     THEN EMBEDIDS_ERROR_METRIC_TYPE_MISMATCH
                     ELSE IF metric.history = NULL
                     THEN EMBEDIDS_ERROR_INVALID_PARAM
                     ELSE EMBEDIDS_OK,
          mem |-> [M EXCEPT !.detector_ctx[custom.context] = @ + 1]]
    [] custom.function = "always_fail_algorithm" ->
         [result |-> EMBEDIDS_ERROR_CUSTOM_DETECTION, mem |-> M]

\* faulty variant: any failure of a detector is reported as a custom detection
run_algorithm_normalised(M, metric, algorithm) ==
  CASE algorithm.type = "EMBEDIDS_ALGORITHM_THRESHOLD" ->
         [result |-> run_threshold_algorithm(M, metric, algorithm.config),
          mem |-> M, kind |-> "builtin"]
    [] algorithm.type = "EMBEDIDS_ALGORITHM_TREND" ->
         [result |-> run_trend_algorithm(M, metric, algorithm.config),
          mem |-> M, kind |-> "builtin"]
    [] algorithm.type = "EMBEDIDS_ALGORITHM_CUSTOM" ->
         IF algorithm.config.function # NULL_FN
         THEN LET r == custom_function(M, metric, algorithm.config)
              IN [result |-> IF r.result = EMBEDIDS_OK THEN EMBEDIDS_OK
                             ELSE EMBEDIDS_ERROR_CUSTOM_DETECTION,
                  mem |-> r.mem, kind |-> "detector"]
         ELSE [result |-> EMBEDIDS_OK, mem |-> M, kind |-> "no_detector"]

\* one pass of the switch in embedids_analyze_metric's loop
run_algorithm(M, metric, algorithm) ==
  CASE algorithm.type = "EMBEDIDS_ALGORITHM_THRESHOLD" ->
         [result |-> run_threshold_algorithm(M, metric, algorithm.config),
          mem |-> M, kind |-> "builtin"]
    [] algorithm.type = "EMBEDIDS_ALGORITHM_TREND" ->
         [result |-> run_trend_algorithm(M, metric, algorithm.config),
          mem |-> M, kind |-> "builtin"]
    [] algorithm.type = "EMBEDIDS_ALGORITHM_CUSTOM" ->
         IF algorithm.config.function # NULL_FN
         THEN LET r == custom_function(M, metric, algorithm.config)
              IN [result |-> r.result, mem |-> r.mem, kind |-> "detector"]
         ELSE [result |-> EMBEDIDS_OK, mem |-> M, kind |-> "no_detector"]

RECURSIVE analyze_algorithms_ignore_enabled(_, _, _, _, _)
\* faulty variant: the enabled flag of an algorithm is not looked at
analyze_algorithms_ignore_enabled(M, a, mi, i, ev) ==
  LET config == M.metric_arrays[a][mi] IN
  IF i > config.num_algorithms
  THEN [result |-> EMBEDIDS_OK, mem |-> M, ev |-> ev]
  ELSE LET r == run_algorithm(M, config.metric, config.algorithms[i])
           ev2 == Append(ev, <<a, mi, i, r.kind>>)
       IN IF r.result # EMBEDIDS_OK
          THEN [result |-> r.result, mem |-> r.mem, ev |-> ev2]
          ELSE analyze_algorithms_ignore_enabled(r.mem, a, mi, i + 1, ev2)

RECURSIVE analyze_algorithms_aggregate(_, _, _, _, _)
\* faulty variant: every enabled algorithm runs and the last failure is returned
analyze_algorithms_aggregate(M, a, mi, i, ev) ==
  LET config == M.metric_arrays[a][mi] IN
  IF i > config.num_algorithms
  THEN [result |-> EMBEDIDS_OK, mem |-> M, ev |-> ev]
  ELSE LET algorithm == config.algorithms[i] IN
       IF ~algorithm.enabled
       THEN analyze_algorithms_aggregate(M, a, mi, i + 1, ev)
       ELSE LET r == run_algorithm(M, config.metric, algorithm)
                rest == analyze_algorithms_aggregate(r.mem, a, mi, i + 1,
                                                     Append(ev, <<a, mi, i, r.kind>>))
            IN IF rest.result # EMBEDIDS_OK THEN rest
               ELSE [result |-> r.result, mem |-> rest.mem, ev |-> rest.ev]

RECURSIVE analyze_algorithms(_, _, _, _, _)
\* the loop of embedids_analyze_metric from algorithm index i (from 1) on
analyze_algorithms(M, a, mi, i, ev) ==
  LET config == M.metric_arrays[a][mi] IN
  IF i > config.num_algorithms
  THEN [result |-> EMBEDIDS_OK, mem |-> M, ev |-> ev]
  ELSE LET algorithm == config.algorithms[i] IN
       IF ~algorithm.enabled
       THEN analyze_algorithms(M, a, mi, i + 1, ev)
       ELSE LET r == run_algorithm(M, config.metric, algorithm)
                ev2 == Append(ev, <<a, mi, i, r.kind>>)
            IN IF r.result # EMBEDIDS_OK
               THEN [result |-> r.result, mem |-> r.mem, ev |-> ev2]
               ELSE analyze_algorithms(r.mem, a, mi, i + 1, ev2)

\* faulty variant: a disabled metric is analyzed like an enabled one
analyze_metric_status_no_disabled(M, c, metric_name) ==
  IF c = NULL \/ ~M.context.initialized THEN EMBEDIDS_ERROR_NOT_INITIALIZED
  ELSE IF metric_name = NULL_NAME THEN EMBEDIDS_ERROR_INVALID_PARAM
  ELSE IF find_metric_config(M, c, metric_name) = 0 THEN EMBEDIDS_ERROR_METRIC_NOT_FOUND
  ELSE EMBEDIDS_OK

\* the result code of embedids_analyze_metric's checks; EMBEDIDS_OK when the loop runs
analyze_metric_status(M, c, metric_name) ==
  IF c = NULL \/ ~M.context.initialized THEN EMBEDIDS_ERROR_NOT_INITIALIZED
  ELSE IF metric_name = NULL_NAME THEN EMBEDIDS_ERROR_INVALID_PARAM
  ELSE LET i == find_metric_config(M, c, metric_name) IN
    IF i = 0 THEN EMBEDIDS_ERROR_METRIC_NOT_FOUND
    ELSE IF ~M.metric_arrays[M.system_configs[M.context.system_config].metrics][i]
               .metric.enabled
    THEN EMBEDIDS_ERROR_METRIC_DISABLED
    ELSE EMBEDIDS_OK

embedids_analyze_metric(M, c, metric_name, ev) ==
  LET status == analyze_metric_status(M, c, metric_name) IN
  IF status # EMBEDIDS_OK THEN [result |-> status, mem |-> M, ev |-> ev]
  ELSE analyze_algorithms(M, M.system_configs[M.context.system_config].metrics,
                          find_metric_config(M, c, metric_name), 1, ev)

RECURSIVE analyze_all_loop_first_only(_, _, _, _)
\* faulty variant: the sweep ends with the first enabled metric
analyze_all_loop_first_only(M, c, i, ev) ==
  LET cfg == M.system_configs[M.context.system_config] IN
  IF i > cfg.num_active_metrics
  THEN [result |-> EMBEDIDS_OK, mem |-> M, ev |-> ev]
  ELSE LET config == M.metric_arrays[cfg.metrics][i] IN
       IF config.metric.enabled
       THEN embedids_analyze_metric(M, c, config.metric.name, ev)
       ELSE analyze_all_loop_first_only(M, c, i + 1, ev)

RECURSIVE analyze_all_loop(_, _, _, _)
\* the loop of embedids_analyze_all from metric index i (from 1) on
analyze_all_loop(M, c, i, ev) ==
  LET cfg == M.system_configs[M.context.system_config] IN
  IF i > cfg.num_active_metrics
  THEN [result |-> EMBEDIDS_OK, mem |-> M, ev |-> ev]
  ELSE LET config == M.metric_arrays[cfg.metrics][i] IN
       IF config.metric.enabled
       THEN LET r == embedids_analyze_metric(M, c, config.metric.name, ev)
            IN IF r.result # EMBEDIDS_OK THEN r
               ELSE analyze_all_loop(r.mem, c, i + 1, r.ev)
       ELSE analyze_all_loop(M, c, i + 1, ev)

\* faulty variant: a sweep consumes the samples it has judged
embedids_analyze_all_consuming(M, c) ==
  IF c = NULL \/ ~M.context.initialized
  THEN [result |-> EMBEDIDS_ERROR_NOT_INITIALIZED, mem |-> M, ev |-> <<>>]
  ELSE LET r == analyze_all_loop(M, c, 1, <<>>)
       IN [result |-> r.result, ev |-> r.ev,
           mem |-> [r.mem EXCEPT
                      !.metric_arrays[M.system_configs[M.context.system_config].metrics] =
                         [i \in DOMAIN @ |->
                            [@[i] EXCEPT !.metric.current_size = 0]]]]

embedids_analyze_all(M, c) ==
  IF c = NULL \/ ~M.context.initialized
  THEN [result |-> EMBEDIDS_ERROR_NOT_INITIALIZED, mem |-> M, ev |-> <<>>]
  ELSE analyze_all_loop(M, c, 1, <<>>)

-----------------------------------------------------------------------------
(* Trend heuristic *)

TrendTypes == FloatTypes \cup {"EMBEDIDS_METRIC_TYPE_UINT32",
                               "EMBEDIDS_METRIC_TYPE_UINT64"}

RECURSIVE trend_sum_change(_, _, _, _, _)
\* sum_change after the loop has run from index i to num_points - 1
trend_sum_change(history, metric, start_index, num_points, i) ==
  IF i >= num_points THEN 0
  ELSE LET curr_idx == (start_index + i) % metric.max_history_size
           prev_idx == (start_index + i - 1) % metric.max_history_size
       IN (history[curr_idx + 1].value - history[prev_idx + 1].value)
          + trend_sum_change(history, metric, start_index, num_points, i + 1)

\* faulty variant: an average change equal to the threshold still counts as stable
trend_of_inclusive(M, metric) ==
  LET history == M.buffers[metric.history]
      start_index == IF metric.current_size = metric.max_history_size
                     THEN metric.write_index ELSE 0
      num_points == IF metric.current_size < 3 THEN metric.current_size ELSE 3
      changes == num_points - 1
      sum_change == trend_sum_change(history, metric, start_index, num_points, 1)
      first_val == history[start_index + 1].value
      threshold20 == IF Abs(first_val) < 20 THEN 20 ELSE Abs(first_val)
  IN IF metric.type \notin TrendTypes THEN EMBEDIDS_TREND_STABLE
     ELSE IF changes = 0 THEN EMBEDIDS_TREND_STABLE
     ELSE IF 20 * Abs(sum_change) <= changes * threshold20 THEN EMBEDIDS_TREND_STABLE
     ELSE IF sum_change > 0 THEN EMBEDIDS_TREND_INCREASING
     ELSE EMBEDIDS_TREND_DECREASING

\* faulty variant: the window always starts at slot 0 of the buffer
trend_of_from_slot_zero(M, metric) ==
  LET history == M.buffers[metric.history]
      start_index == 0
      num_points == IF metric.current_size < 3 THEN metric.current_size ELSE 3
      changes == num_points - 1
      sum_change == trend_sum_change(history, metric, start_index, num_points, 1)
      first_val == history[start_index + 1].value
      threshold20 == IF Abs(first_val) < 20 THEN 20 ELSE Abs(first_val)
  IN IF metric.type \notin TrendTypes THEN EMBEDIDS_TREND_STABLE
     ELSE IF changes = 0 THEN EMBEDIDS_TREND_STABLE
     ELSE IF 20 * Abs(sum_change) < changes * threshold20 THEN EMBEDIDS_TREND_STABLE
     ELSE IF sum_change > 0 THEN EMBEDIDS_TREND_INCREASING
     ELSE EMBEDIDS_TREND_DECREASING

\* the classification of embedids_get_trend for a metric holding >= 2 samples;
\* fabsf(avg_change) < max(fabsf(first_val) * 0.05f, 1.0f) is compared after
\* scaling both sides by 20 * changes
trend_of(M, metric) ==
  LET history == M.buffers[metric.history]
      start_index == IF metric.current_size = metric.max_history_size
                     THEN metric.write_index ELSE 0
      num_points == IF metric.current_size < 3 THEN metric.current_size ELSE 3
      changes == num_points - 1
      sum_change == trend_sum_change(history, metric, start_index, num_points, 1)
      first_val == history[start_index + 1].value
      threshold20 == IF Abs(first_val) < 20 THEN 20 ELSE Abs(first_val)
  IN IF metric.type \notin TrendTypes THEN EMBEDIDS_TREND_STABLE
     ELSE IF changes = 0 THEN EMBEDIDS_TREND_STABLE
     ELSE IF 20 * Abs(sum_change) < changes * threshold20 THEN EMBEDIDS_TREND_STABLE
     ELSE IF sum_change > 0 THEN EMBEDIDS_TREND_INCREASING
     ELSE EMBEDIDS_TREND_DECREASING

\* faulty variant: the arguments are checked before the context
embedids_get_trend_arguments_first(M, c, metric_name, trend) ==
  IF metric_name = NULL_NAME \/ trend = NULL
  THEN [result |-> EMBEDIDS_ERROR_INVALID_PARAM, written |-> FALSE]
  ELSE IF c = NULL \/ ~M.context.initialized
  THEN [result |-> EMBEDIDS_ERROR_NOT_INITIALIZED, written |-> FALSE]
  ELSE LET i == find_metric_config(M, c, metric_name) IN
    IF i = 0 THEN [result |-> EMBEDIDS_ERROR_METRIC_NOT_FOUND, written |-> FALSE]
    ELSE LET metric ==
               M.metric_arrays[M.system_configs[M.context.system_config].metrics][i].metric
         IN IF ~metric.enabled
            THEN [result |-> EMBEDIDS_ERROR_METRIC_DISABLED, written |-> FALSE]
            ELSE IF metric.current_size < 2
            THEN [result |-> EMBEDIDS_OK, written |-> TRUE,
                  trend |-> EMBEDIDS_TREND_STABLE]
            ELSE [result |-> EMBEDIDS_OK, written |-> TRUE,
                  trend |-> trend_of(M, metric)]

\* faulty variant: fewer than two samples are refused instead of reported stable
embedids_get_trend_needs_two(M, c, metric_name, trend) ==
  IF c = NULL \/ ~M.context.initialized
  THEN [result |-> EMBEDIDS_ERROR_NOT_INITIALIZED, written |-> FALSE]
  ELSE IF metric_name = NULL_NAME \/ trend = NULL
  THEN [result |-> EMBEDIDS_ERROR_INVALID_PARAM, written |-> FALSE]
  ELSE LET i == find_metric_config(M, c, metric_name) IN
    IF i = 0 THEN [result |-> EMBEDIDS_ERROR_METRIC_NOT_FOUND, written |-> FALSE]
    ELSE LET metric ==
               M.metric_arrays[M.system_configs[M.context.system_config].metrics][i].metric
         IN IF ~metric.enabled
            THEN [result |-> EMBEDIDS_ERROR_METRIC_DISABLED, written |-> FALSE]
            ELSE IF metric.current_size < 2
            THEN [result |-> EMBEDIDS_ERROR_INVALID_PARAM, written |-> FALSE]
            ELSE [result |-> EMBEDIDS_OK, written |-> TRUE,
                  trend |-> trend_of(M, metric)]

\* trend: the address of the caller's output variable (NULL or 1);
\* written: whether *trend was assigned, and with what
embedids_get_trend(M, c, metric_name, trend) ==
  IF c = NULL \/ ~M.context.initialized
  THEN [result |-> EMBEDIDS_ERROR_NOT_INITIALIZED, written |-> FALSE]
  ELSE IF metric_name = NULL_NAME \/ trend = NULL
  THEN [result |-> EMBEDIDS_ERROR_INVALID_PARAM, written |-> FALSE]
  ELSE LET i == find_metric_config(M, c, metric_name) IN
    IF i = 0 THEN [result |-> EMBEDIDS_ERROR_METRIC_NOT_FOUND, written |-> FALSE]
    ELSE LET metric ==
               M.metric_arrays[M.system_configs[M.context.system_config].metrics][i].metric
         IN IF ~metric.enabled
            THEN [result |-> EMBEDIDS_ERROR_METRIC_DISABLED, written |-> FALSE]
            ELSE IF metric.current_size < 2
            THEN [result |-> EMBEDIDS_OK, written |-> TRUE,
                  trend |-> EMBEDIDS_TREND_STABLE]
            ELSE [result |-> EMBEDIDS_OK, written |-> TRUE,
                  trend |-> trend_of(M, metric)]

-----------------------------------------------------------------------------
(* Reset *)

ZeroPoint == [value |-> 0, timestamp_ms |-> 0]

\* faulty variant: only the slots holding samples are cleared
zero_fill_occupied(history, metric) ==
  [k \in DOMAIN history |->
     IF k <= metric.current_size THEN ZeroPoint ELSE history[k]]

\* memset(metric->history, 0, max_history_size * sizeof(datapoint))
zero_fill(history, metric) ==
  [k \in DOMAIN history |->
     IF k <= metric.max_history_size THEN ZeroPoint ELSE history[k]]

RECURSIVE reset_loop(_, _, _)
\* the loop of embedids_reset_all_metrics from metric index i (from 1) on
reset_loop(M, a, i) ==
  IF i > M.system_configs[M.context.system_config].num_active_metrics THEN M
  ELSE LET metric == M.metric_arrays[a][i].metric
           M1 == [M EXCEPT !.metric_arrays[a][i].metric.current_size = 0,
                           !.metric_arrays[a][i].metric.write_index = 0]
           M2 == IF metric.history # NULL
                 THEN [M1 EXCEPT !.buffers[metric.history] = zero_fill(@, metric)]
                 ELSE M1
       IN reset_loop(M2, a, i + 1)

embedids_reset_all_metrics(M, c) ==
  IF c = NULL \/ ~M.context.initialized
  THEN [result |-> EMBEDIDS_ERROR_NOT_INITIALIZED, mem |-> M]
  ELSE [result |-> EMBEDIDS_OK,
        mem |-> reset_loop(M, M.system_configs[M.context.system_config].metrics, 1)]

-----------------------------------------------------------------------------
(* Lifecycle *)

ZeroedContext == [system_config |-> NULL, initialized |-> FALSE]

\* faulty variant: the configuration argument is not checked
init_no_config_check(M, c, config) ==
  IF c = NULL
  THEN [result |-> EMBEDIDS_ERROR_INVALID_PARAM, mem |-> M]
  ELSE [result |-> EMBEDIDS_OK,
        mem |-> [M EXCEPT !.context =
                   [system_config |-> config, initialized |-> TRUE]]]

\* faulty variant: an initialized context is not initialized again
init_rejects_reinit(M, c, config) ==
  IF c = NULL \/ config = NULL
  THEN [result |-> EMBEDIDS_ERROR_INVALID_PARAM, mem |-> M]
  ELSE IF M.context.initialized
  THEN [result |-> EMBEDIDS_ERROR_ALREADY_INITIALIZED, mem |-> M]
  ELSE [result |-> EMBEDIDS_OK,
        mem |-> [M EXCEPT !.context =
                   [system_config |-> config, initialized |-> TRUE]]]

embedids_init(M, c, config) ==
  IF c = NULL \/ config = NULL
  THEN [result |-> EMBEDIDS_ERROR_INVALID_PARAM, mem |-> M]
  ELSE [result |-> EMBEDIDS_OK,
        mem |-> [M EXCEPT !.context =
                   [system_config |-> config, initialized |-> TRUE]]]

\* faulty variant: only the initialized flag is cleared
cleanup_flag_only(M, c) ==
  IF c # NULL THEN [M EXCEPT !.context.initialized = FALSE] ELSE M

\* faulty variant: cleanup also resets the metrics of the configuration it was bound to
cleanup_and_reset(M, c) ==
  IF c # NULL
  THEN [embedids_reset_all_metrics(M, c).mem EXCEPT !.context = ZeroedContext]
  ELSE M

\* memset(context, 0, sizeof(embedids_context_t))
embedids_cleanup(M, c) ==
  IF c # NULL THEN [M EXCEPT !.context = ZeroedContext] ELSE M

\* faulty variant: every present context counts as initialized
is_initialized_any_context(M, c) == c # NULL

embedids_is_initialized(M, c) ==
  IF c # NULL THEN M.context.initialized ELSE FALSE

-----------------------------------------------------------------------------
(* Configuration validation *)

\* every enumerator of embedids_result_t, as the switch of
\* embedids_get_error_string names them
DeclaredResults ==
  {EMBEDIDS_OK, EMBEDIDS_ERROR_INVALID_PARAM, EMBEDIDS_ERROR_NOT_INITIALIZED,
   EMBEDIDS_ERROR_ALREADY_INITIALIZED, EMBEDIDS_ERROR_CONFIG_INVALID,
   "EMBEDIDS_ERROR_OUT_OF_MEMORY", "EMBEDIDS_ERROR_BUFFER_FULL",
   "EMBEDIDS_ERROR_BUFFER_CORRUPT", "EMBEDIDS_ERROR_ALIGNMENT_ERROR",
   EMBEDIDS_ERROR_METRIC_NOT_FOUND, EMBEDIDS_ERROR_METRIC_DISABLED,
   EMBEDIDS_ERROR_METRIC_TYPE_MISMATCH, "EMBEDIDS_ERROR_METRIC_NAME_TOO_LONG",
   "EMBEDIDS_ERROR_ALGORITHM_FAILED", "EMBEDIDS_ERROR_ALGORITHM_NOT_SUPPORTED",
   "EMBEDIDS_ERROR_CUSTOM_ALGORITHM_NULL", EMBEDIDS_ERROR_THRESHOLD_EXCEEDED,
   EMBEDIDS_ERROR_TREND_ANOMALY, EMBEDIDS_ERROR_CUSTOM_DETECTION,
   "EMBEDIDS_ERROR_STATISTICAL_ANOMALY", "EMBEDIDS_ERROR_TIMEOUT",
   "EMBEDIDS_ERROR_HARDWARE_FAULT", "EMBEDIDS_ERROR_TIMESTAMP_INVALID",
   "EMBEDIDS_ERROR_THREAD_UNSAFE"}

\* values of the enumeration's integer type that no enumerator has
UndeclaredResults == {"(embedids_result_t)-1", "(embedids_result_t)999"}

\* faulty variant: only some codes are described, and two anomaly codes share a
\* description
embedids_get_error_string_shared(error_code) ==
  CASE error_code = EMBEDIDS_OK -> "Success"
    [] error_code = EMBEDIDS_ERROR_INVALID_PARAM -> "Invalid parameter"
    [] error_code = EMBEDIDS_ERROR_NOT_INITIALIZED -> "Library not initialized"
    [] error_code = EMBEDIDS_ERROR_TREND_ANOMALY -> "Trend anomaly detected"
    [] error_code = "EMBEDIDS_ERROR_STATISTICAL_ANOMALY" -> "Trend anomaly detected"
    [] OTHER -> "Unknown error"

embedids_get_error_string(error_code) ==
  CASE error_code = EMBEDIDS_OK -> "Success"
    [] error_code = EMBEDIDS_ERROR_INVALID_PARAM -> "Invalid parameter"
    [] error_code = EMBEDIDS_ERROR_NOT_INITIALIZED -> "Library not initialized"
    [] error_code = EMBEDIDS_ERROR_ALREADY_INITIALIZED -> "Library already initialized"
    [] error_code = EMBEDIDS_ERROR_CONFIG_INVALID -> "Invalid configuration"
    [] error_code = "EMBEDIDS_ERROR_OUT_OF_MEMORY" -> "Out of memory"
    [] error_code = "EMBEDIDS_ERROR_BUFFER_FULL" -> "Buffer full"
    [] error_code = "EMBEDIDS_ERROR_BUFFER_CORRUPT" -> "Buffer corrupted"
    [] error_code = "EMBEDIDS_ERROR_ALIGNMENT_ERROR" -> "Memory alignment error"
    [] error_code = EMBEDIDS_ERROR_METRIC_NOT_FOUND -> "Metric not found"
    [] error_code = EMBEDIDS_ERROR_METRIC_DISABLED -> "Metric disabled"
    [] error_code = EMBEDIDS_ERROR_METRIC_TYPE_MISMATCH -> "Metric type mismatch"
    [] error_code = "EMBEDIDS_ERROR_METRIC_NAME_TOO_LONG" -> "Metric name too long"
    [] error_code = "EMBEDIDS_ERROR_ALGORITHM_FAILED" -> "Algorithm failed"
    [] error_code = "EMBEDIDS_ERROR_ALGORITHM_NOT_SUPPORTED" -> "Algorithm not supported"
    [] error_code = "EMBEDIDS_ERROR_CUSTOM_ALGORITHM_NULL" -> "Custom algorithm is null"
    [] error_code = EMBEDIDS_ERROR_THRESHOLD_EXCEEDED -> "Threshold exceeded"
    [] error_code = EMBEDIDS_ERROR_TREND_ANOMALY -> "Trend anomaly detected"
    [] error_code = EMBEDIDS_ERROR_CUSTOM_DETECTION -> "Custom detection triggered"
    [] error_code = "EMBEDIDS_ERROR_STATISTICAL_ANOMALY" -> "Statistical anomaly detected"
    [] error_code = "EMBEDIDS_ERROR_TIMEOUT" -> "Operation timeout"
    [] error_code = "EMBEDIDS_ERROR_HARDWARE_FAULT" -> "Hardware fault"
    [] error_code = "EMBEDIDS_ERROR_TIMESTAMP_INVALID" -> "Invalid timestamp"
    [] error_code = "EMBEDIDS_ERROR_THREAD_UNSAFE" -> "Thread safety violation"
    [] OTHER -> "Unknown error"

\* faulty variant: the capacity ceiling is checked before the metrics reference
embedids_validate_config_ceiling_first(M, config) ==
  IF config = NULL THEN EMBEDIDS_ERROR_INVALID_PARAM
  ELSE IF \/ M.system_configs[config].max_metrics = 0
          \/ M.system_configs[config].max_metrics > EMBEDIDS_MAX_METRICS
       THEN EMBEDIDS_ERROR_CONFIG_INVALID
  ELSE IF M.system_configs[config].metrics = NULL THEN EMBEDIDS_ERROR_INVALID_PARAM
  ELSE EMBEDIDS_OK

embedids_validate_config(M, config) ==
  IF config = NULL THEN EMBEDIDS_ERROR_INVALID_PARAM
  ELSE IF M.system_configs[config].metrics = NULL THEN EMBEDIDS_ERROR_INVALID_PARAM
  ELSE IF \/ M.system_configs[config].max_metrics = 0
          \/ M.system_configs[config].max_metrics > EMBEDIDS_MAX_METRICS
       THEN EMBEDIDS_ERROR_CONFIG_INVALID
  ELSE EMBEDIDS_OK

-----------------------------------------------------------------------------
(* Host-owned configurations, as the test suite builds them *)

cpu_usage == <<"c", "p", "u">>

memory_usage == <<"m", "e", "m">>

test_metric == <<"t", "s", "t">>

Names == {NULL_NAME, cpu_usage, memory_usage, test_metric}

Values == {1, 2}

\* the timestamps the host passes: 1000 + i * 1000 for the i-th sample
Timestamps == {1000 + i * 1000 : i \in 0..MaxAdds}

CtxPtrs == {NULL, CTX}

ConfigPtrs == {NULL, 1, 2, 3}

NoTrend == "none"

Zeros(n) == [k \in 1..n |-> ZeroPoint]

\* setupBasicMetric / embedids_metric_init: an empty, enabled metric
BasicMetric(name, type, history, history_size) ==
  [name |-> name, type |-> type, history |-> history,
   max_history_size |-> history_size, current_size |-> 0, write_index |-> 0,
   enabled |-> TRUE]

\* a Threshold algorithm with only the maximum enforced
MaxThreshold(max) ==
  [type |-> "EMBEDIDS_ALGORITHM_THRESHOLD", enabled |-> TRUE,
   config |-> [min_threshold |-> 0, max_threshold |-> max,
               check_min |-> FALSE, check_max |-> TRUE]]

CustomAlgorithm(fn, dctx) ==
  [type |-> "EMBEDIDS_ALGORITHM_CUSTOM", enabled |-> TRUE,
   config |-> [function |-> fn, config |-> NULL, context |-> dctx]]

\* memset(&config, 0, sizeof(config))
ZeroedSystemConfig == [metrics |-> NULL, max_metrics |-> 0, num_active_metrics |-> 0]

\* configuration 1: "cpu" with a buffer of two, a threshold and a counting detector,
\* and "mem" without a history buffer; configuration 2: "cpu" with a buffer of one;
\* configuration 3: zeroed
HostSetup ==
  /\ system_configs =
       [k \in 1..3 |->
          CASE k = 1 -> [metrics |-> 1, max_metrics |-> 2, num_active_metrics |-> 2]
            [] k = 2 -> [metrics |-> 2, max_metrics |-> 1, num_active_metrics |-> 1]
            [] k = 3 -> ZeroedSystemConfig]
  /\ metric_arrays =
       [a \in 1..2 |->
          IF a = 1
          THEN << [metric |-> BasicMetric(cpu_usage, "EMBEDIDS_METRIC_TYPE_FLOAT", 1, 2),
                   algorithms |-> << MaxThreshold(1),
                                     CustomAlgorithm("type_checking_algorithm", 1) >>,
                   num_algorithms |-> 2],
                  [metric |-> BasicMetric(memory_usage, "EMBEDIDS_METRIC_TYPE_UINT32",
                                          NULL, 2),
                   algorithms |-> << CustomAlgorithm("always_fail_algorithm", NULL) >>,
                   num_algorithms |-> 1] >>
          ELSE << [metric |-> BasicMetric(cpu_usage, "EMBEDIDS_METRIC_TYPE_FLOAT", 2, 1),
                   algorithms |-> << MaxThreshold(1) >>,
                   num_algorithms |-> 1] >>]
  /\ buffers = [b \in 1..2 |-> IF b = 1 THEN Zeros(2) ELSE Zeros(1)]

\* one configuration with one metric "cpu" of any capacity up to MaxCap
RingSetup ==
  \E cap \in 1..MaxCap :
    /\ system_configs =
         [k \in 1..3 |->
            IF k = 1 THEN [metrics |-> 1, max_metrics |-> 1, num_active_metrics |-> 1]
            ELSE ZeroedSystemConfig]
    /\ metric_arrays =
         [a \in 1..2 |->
            IF a = 1
            THEN << [metric |-> BasicMetric(cpu_usage, "EMBEDIDS_METRIC_TYPE_FLOAT",
                                            1, cap),
                     algorithms |-> << MaxThreshold(1) >>,
                     num_algorithms |-> 1] >>
            ELSE << >>]
    /\ buffers = [b \in 1..2 |-> IF b = 1 THEN Zeros(cap) ELSE << >>]

MetricTypes == FloatTypes \cup {"EMBEDIDS_METRIC_TYPE_UINT32", "EMBEDIDS_METRIC_TYPE_UINT64",
                                "EMBEDIDS_METRIC_TYPE_BOOL", "EMBEDIDS_METRIC_TYPE_ENUM"}

\* the values the analysis runs insert: below, at and above the bounds 2 and 3
SampleValues == 1..4

\* a Threshold algorithm with both bounds configured and either check switched
ThresholdAlgorithm(min, max, check_min, check_max) ==
  [type |-> "EMBEDIDS_ALGORITHM_THRESHOLD", enabled |-> TRUE,
   config |-> [min_threshold |-> min, max_threshold |-> max,
               check_min |-> check_min, check_max |-> check_max]]

\* a Trend algorithm expecting a stable series of slope and variance 0
TrendAlgorithm(window_size) ==
  [type |-> "EMBEDIDS_ALGORITHM_TREND", enabled |-> TRUE,
   config |-> [window_size |-> window_size, max_slope |-> 0, max_variance |-> 0,
               expected_trend |-> EMBEDIDS_TREND_STABLE]]

WithEnabled(algorithm, enabled) == [algorithm EXCEPT !.enabled = enabled]

MetricConfig(metric, algorithms, num_algorithms) ==
  [metric |-> metric, algorithms |-> algorithms, num_algorithms |-> num_algorithms]

\* one metric whose capacity is 0 or whose history reference is absent; the array
\* behind the reference holds one data point
DegenerateSetups ==
  {[metrics |-> << MetricConfig(BasicMetric(cpu_usage, "EMBEDIDS_METRIC_TYPE_FLOAT",
                                            h[1], h[2]),
                                << MaxThreshold(1) >>, 1) >>,
    arrays |-> << 1 >>] : h \in {<<1, 0>>, <<NULL, 0>>, <<NULL, 2>>}}

\* setupThresholdMetric: one metric of each type with one Threshold algorithm
ThresholdSetups ==
  {[metrics |-> << MetricConfig(BasicMetric(cpu_usage, type, 1, 1),
                                << ThresholdAlgorithm(2, 3, check[1], check[2]) >>, 1) >>,
    arrays |-> << 1 >>] : type \in MetricTypes, check \in BOOLEAN \X BOOLEAN}

\* what algorithm slot k of a metric may hold
AlgorithmChoices(k) ==
  {WithEnabled(algorithm, enabled) :
     algorithm \in {MaxThreshold(1),
                    CustomAlgorithm("type_checking_algorithm", k),
                    CustomAlgorithm("always_fail_algorithm", NULL),
                    CustomAlgorithm(NULL_FN, k)},
     enabled \in BOOLEAN}

\* one metric with two populated algorithm slots and any algorithm count
AlgorithmSetups ==
  {[metrics |-> << MetricConfig(BasicMetric(cpu_usage, type, 1, 1),
                                << first, second >>, num_algorithms) >>,
    arrays |-> << 1 >>] :
     type \in {"EMBEDIDS_METRIC_TYPE_FLOAT"},
     first \in AlgorithmChoices(1), second \in AlgorithmChoices(2),
     num_algorithms \in 0..2}

\* setupCustomMetric: one metric, of the type the detector expects or not, with or
\* without a history buffer, and one Custom algorithm
DetectorSetups ==
  {[metrics |-> << MetricConfig(BasicMetric(cpu_usage, type, history, 1),
                                << algorithm >>, 1) >>,
    arrays |-> << 1 >>] :
     type \in {"EMBEDIDS_METRIC_TYPE_FLOAT", "EMBEDIDS_METRIC_TYPE_UINT32"},
     history \in {1, NULL},
     algorithm \in {CustomAlgorithm("type_checking_algorithm", 1),
                    CustomAlgorithm("always_fail_algorithm", NULL),
                    CustomAlgorithm(NULL_FN, 1)}}

\* one metric of capacity 2 with one Trend algorithm of any small window, a
\* maximum slope of 0 or 5 and an expected trend
TrendSetups ==
  {[metrics |-> << MetricConfig(BasicMetric(memory_usage, "EMBEDIDS_METRIC_TYPE_FLOAT",
                                            1, 2),
                                << [TrendAlgorithm(window_size) EXCEPT
                                      !.config.max_slope = max_slope,
                                      !.config.expected_trend = expected_trend] >>,
                                1) >>,
    arrays |-> << 2 >>] :
     window_size \in 0..3, max_slope \in {0, 5},
     expected_trend \in {EMBEDIDS_TREND_STABLE, EMBEDIDS_TREND_INCREASING}}

\* two metrics, each enabled or not; the second carries a threshold or a detector
\* and has a name of its own or the name of the first
SweepSetups ==
  {[metrics |->
      << MetricConfig([BasicMetric(cpu_usage, "EMBEDIDS_METRIC_TYPE_FLOAT", 1, 1)
                         EXCEPT !.enabled = on[1]],
                      << CustomAlgorithm("type_checking_algorithm", 1),
                         MaxThreshold(1) >>, 2),
         MetricConfig([BasicMetric(name, "EMBEDIDS_METRIC_TYPE_FLOAT", 2, 1)
                         EXCEPT !.enabled = on[2]],
                      << algorithm >>, 1) >>,
    arrays |-> << 1, 1 >>] :
     on \in BOOLEAN \X BOOLEAN,
     name \in {cpu_usage, memory_usage},
     algorithm \in {MaxThreshold(1),
                    CustomAlgorithm("type_checking_algorithm", 2),
                    CustomAlgorithm("always_fail_algorithm", NULL)}}

AnalysisSetups ==
  DegenerateSetups \cup ThresholdSetups \cup AlgorithmSetups \cup DetectorSetups
    \cup TrendSetups \cup SweepSetups

\* a name that fills the name field of a metric: no terminator is stored
LongName == [k \in 1..EMBEDIDS_MAX_METRIC_NAME_LEN |-> "x"]

\* the names the lookup runs query: "cpu", the same in upper case, a proper prefix
\* of it, "mem", "tst", the name that fills the field and that name with one more
\* character
LookupNames == {cpu_usage, <<"C", "P", "U">>, <<"c", "p">>, memory_usage, test_metric,
                LongName, LongName \o <<"y">>}

\* an array of three metrics of which the configuration declares two active:
\* "cpu", a second entry named like the first, in upper case, "mem" or by the
\* name that fills the field, and "tst" at the inactive index
LookupSetup ==
  \E second \in {cpu_usage, <<"C", "P", "U">>, memory_usage, LongName} :
    /\ system_configs =
         << [metrics |-> 1, max_metrics |-> 3, num_active_metrics |-> 2],
            ZeroedSystemConfig, ZeroedSystemConfig >>
    /\ metric_arrays =
         [a \in 1..2 |->
            IF a = 1
            THEN << MetricConfig(BasicMetric(cpu_usage, "EMBEDIDS_METRIC_TYPE_FLOAT",
                                             1, 2), << MaxThreshold(1) >>, 1),
                    MetricConfig(BasicMetric(second, "EMBEDIDS_METRIC_TYPE_FLOAT",
                                             2, 2), << MaxThreshold(1) >>, 1),
                    MetricConfig(BasicMetric(test_metric, "EMBEDIDS_METRIC_TYPE_FLOAT",
                                             3, 2), << MaxThreshold(1) >>, 1) >>
            ELSE << >>]
    /\ buffers = [b \in 1..3 |-> Zeros(2)]

\* what an uninitialized host array holds: zeroes or anything else
Garbage == [value |-> 7, timestamp_ms |-> 7]

\* configuration 1: "cpu" (float, capacity 2, a threshold and a trend algorithm) and
\* "mem" (uint32, capacity 1, a threshold), each over a host array one slot longer
\* than its capacity, not initialized by the host; configurations 2..7: what
\* embedids_validate_config is given besides
BuiltinSetup ==
  /\ system_configs =
       << [metrics |-> 1, max_metrics |-> 2, num_active_metrics |-> 2],
          [metrics |-> 1, max_metrics |-> EMBEDIDS_MAX_METRICS + 1,
           num_active_metrics |-> 2],
          ZeroedSystemConfig,
          [metrics |-> NULL, max_metrics |-> 1, num_active_metrics |-> 0],
          [metrics |-> 1, max_metrics |-> 0, num_active_metrics |-> 1],
          [metrics |-> 1, max_metrics |-> EMBEDIDS_MAX_METRICS,
           num_active_metrics |-> EMBEDIDS_MAX_METRICS + 1],
          [metrics |-> 1, max_metrics |-> EMBEDIDS_MAX_METRICS,
           num_active_metrics |-> 0] >>
  /\ metric_arrays =
       [a \in 1..2 |->
          IF a = 1
          THEN << MetricConfig(BasicMetric(cpu_usage, "EMBEDIDS_METRIC_TYPE_FLOAT", 1, 2),
                               << MaxThreshold(1), TrendAlgorithm(2) >>, 2),
                  MetricConfig(BasicMetric(memory_usage, "EMBEDIDS_METRIC_TYPE_UINT32",
                                           2, 1),
                               << MaxThreshold(1) >>, 1) >>
          ELSE << >>]
  /\ \E fill \in {ZeroPoint, Garbage} :
       buffers = << [k \in 1..3 |-> fill], [k \in 1..2 |-> fill] >>

\* the first sample and the steps between samples the trend tests use: 10, 20, ...;
\* 100, 90, ...; 50, 52, 51; and a step of 5% of 100
TrendStarts == {10, 50, 100}

TrendSteps == {-10, -1, 2, 5, 10}

\* setupBasicMetric: a float metric of any capacity up to MaxAdds, or a metric of
\* another type with capacity 3, each carrying a Trend algorithm
TrendMetrics ==
  {MetricConfig(BasicMetric(cpu_usage, "EMBEDIDS_METRIC_TYPE_FLOAT", 1, cap),
                << TrendAlgorithm(2) >>, 1) : cap \in 1..MaxAdds}
  \cup
  {MetricConfig(BasicMetric(cpu_usage, type, 1, 3),
                << [TrendAlgorithm(3) EXCEPT
                      !.config.expected_trend = EMBEDIDS_TREND_DECREASING] >>, 1) :
     type \in MetricTypes \ {"EMBEDIDS_METRIC_TYPE_FLOAT"}}

TrendSetup ==
  \E config \in TrendMetrics :
    /\ system_configs =
         [k \in 1..3 |->
            IF k = 1 THEN [metrics |-> 1, max_metrics |-> 1, num_active_metrics |-> 1]
            ELSE ZeroedSystemConfig]
    /\ metric_arrays = [a \in 1..2 |-> IF a = 1 THEN << config >> ELSE << >>]
    /\ buffers = [b \in 1..2 |-> IF b = 1 THEN Zeros(config.metric.max_history_size)
                                 ELSE << >>]

\* configuration 1 holds the chosen metrics, metric i over host array i
AnalysisSetup ==
  \E setup \in AnalysisSetups :
    /\ system_configs =
         [k \in 1..3 |->
            IF k = 1 THEN [metrics |-> 1, max_metrics |-> Len(setup.metrics),
                           num_active_metrics |-> Len(setup.metrics)]
            ELSE ZeroedSystemConfig]
    /\ metric_arrays = [a \in 1..2 |-> IF a = 1 THEN setup.metrics ELSE << >>]
    /\ buffers = [b \in 1..2 |-> IF b <= Len(setup.arrays)
                                 THEN Zeros(setup.arrays[b]) ELSE << >>]

InitAnalysisRest ==
  /\ context = ZeroedContext
  /\ detector_ctx = [d \in 1..2 |-> 0]
  /\ ret = EMBEDIDS_OK
  /\ call = "none"
  /\ evaluated = << >>
  /\ trend_out = NoTrend
  /\ added = [a \in 1..2 |-> [i \in DOMAIN metric_arrays[a] |-> << >>]]
  /\ validated = NOT_VALIDATED
  /\ described = "none"
  /\ lifecycle = "none"
  /\ context2 = ZeroedContext
  /\ threads = << >>

InitAnalysis == AnalysisSetup /\ InitAnalysisRest

InitRest ==
  /\ context = ZeroedContext
  /\ detector_ctx = [d \in {1} |-> 0]
  /\ ret = EMBEDIDS_OK
  /\ call = "none"
  /\ evaluated = << >>
  /\ trend_out = NoTrend
  /\ added = [a \in 1..2 |-> [i \in DOMAIN metric_arrays[a] |-> << >>]]
  /\ validated = NOT_VALIDATED
  /\ described = "none"
  /\ lifecycle = "none"
  /\ context2 = ZeroedContext
  /\ threads = << >>

Init == HostSetup /\ InitRest

InitRing == RingSetup /\ InitRest

InitTrend == TrendSetup /\ InitRest

InitBuiltin == BuiltinSetup /\ InitRest

InitLookup == LookupSetup /\ InitRest

-----------------------------------------------------------------------------
(* Operations *)

SetMem(M) ==
  /\ context' = M.context
  /\ system_configs' = M.system_configs
  /\ metric_arrays' = M.metric_arrays
  /\ buffers' = M.buffers
  /\ detector_ctx' = M.detector_ctx

Called(op) ==
  /\ call' = op
  /\ validated' = NOT_VALIDATED
  /\ described' = "none"
  /\ UNCHANGED <<context2, threads>>

Initialize(c, config) ==
  LET r == embedids_init(Mem, c, config) IN
  /\ SetMem(r.mem)
  /\ ret' = r.result
  /\ Called("embedids_init")
  /\ lifecycle' = IF c # NULL /\ r.result = EMBEDIDS_OK
                  THEN (IF lifecycle \in {"init", "reinit"} THEN "reinit" ELSE "init")
                  ELSE lifecycle
  /\ evaluated' = << >>
  /\ trend_out' = NoTrend
  /\ UNCHANGED added

Cleanup(c) ==
  /\ SetMem(embedids_cleanup(Mem, c))
  /\ ret' = EMBEDIDS_OK
  /\ Called("embedids_cleanup")
  /\ lifecycle' = IF c # NULL THEN "cleanup" ELSE lifecycle
  /\ evaluated' = << >>
  /\ trend_out' = NoTrend
  /\ UNCHANGED added

IsInitialized(c) ==
  /\ ret' = embedids_is_initialized(Mem, c)
  /\ Called("embedids_is_initialized")
  /\ evaluated' = << >>
  /\ trend_out' = NoTrend
  /\ UNCHANGED <<context, system_configs, metric_arrays, buffers, detector_ctx,
                 added, lifecycle>>

\* the array and the index of the metric a name resolves to (index 0: none)
BoundArray == IF context.system_config = NULL THEN NULL
              ELSE system_configs[context.system_config].metrics

AddDataPoint(c, metric_name, value, timestamp_ms) ==
  \E div0 \in DivisionByZero :
    LET r == embedids_add_datapoint(Mem, c, metric_name, value, timestamp_ms, div0) IN
    /\ SetMem(r.mem)
    /\ ret' = r.result
    /\ Called("embedids_add_datapoint")
    /\ added' = IF r.result = EMBEDIDS_OK
                THEN [added EXCEPT ![BoundArray][find_metric_config(Mem, c, metric_name)] =
                        Append(@, [value |-> value, timestamp_ms |-> timestamp_ms])]
                ELSE added
    /\ evaluated' = << >>
    /\ trend_out' = NoTrend
    /\ UNCHANGED lifecycle

AnalyzeMetric(c, metric_name) ==
  LET r == embedids_analyze_metric(Mem, c, metric_name, << >>) IN
  /\ SetMem(r.mem)
  /\ ret' = r.result
  /\ evaluated' = r.ev
  /\ Called("embedids_analyze_metric")
  /\ trend_out' = NoTrend
  /\ UNCHANGED <<added, lifecycle>>

AnalyzeAll(c) ==
  LET r == embedids_analyze_all(Mem, c) IN
  /\ SetMem(r.mem)
  /\ ret' = r.result
  /\ evaluated' = r.ev
  /\ Called("embedids_analyze_all")
  /\ trend_out' = NoTrend
  /\ UNCHANGED <<added, lifecycle>>

GetTrend(c, metric_name, trend) ==
  LET r == embedids_get_trend(Mem, c, metric_name, trend) IN
  /\ ret' = r.result
  /\ trend_out' = IF r.written THEN r.trend ELSE NoTrend
  /\ Called("embedids_get_trend")
  /\ evaluated' = << >>
  /\ UNCHANGED <<context, system_configs, metric_arrays, buffers, detector_ctx,
                 added, lifecycle>>

ResetAllMetrics(c) ==
  LET r == embedids_reset_all_metrics(Mem, c) IN
  /\ SetMem(r.mem)
  /\ ret' = r.result
  /\ Called("embedids_reset_all_metrics")
  /\ added' = IF r.result = EMBEDIDS_OK
              THEN [a \in DOMAIN added |->
                      IF a = BoundArray
                      THEN [i \in DOMAIN added[a] |->
                              IF i <= system_configs[context.system_config].num_active_metrics
                              THEN << >> ELSE added[a][i]]
                      ELSE added[a]]
              ELSE added
  /\ evaluated' = << >>
  /\ trend_out' = NoTrend
  /\ UNCHANGED lifecycle

ValidateConfig(config) ==
  /\ ret' = embedids_validate_config(Mem, config)
  /\ call' = "embedids_validate_config"
  /\ validated' = config
  /\ described' = "none"
  /\ evaluated' = << >>
  /\ trend_out' = NoTrend
  /\ UNCHANGED <<context, system_configs, metric_arrays, buffers, detector_ctx,
                 added, lifecycle, context2, threads>>

GetErrorString(error_code) ==
  /\ ret' = embedids_get_error_string(error_code)
  /\ call' = "embedids_get_error_string"
  /\ described' = error_code
  /\ validated' = NOT_VALIDATED
  /\ evaluated' = << >>
  /\ trend_out' = NoTrend
  /\ UNCHANGED <<context, system_configs, metric_arrays, buffers, detector_ctx,
                 added, lifecycle, context2, threads>>

\* the host writes a metric's enabled flag directly (metric_config.metric.enabled = ...)
SetMetricEnabled(a, i, enabled) ==
  /\ i \in DOMAIN metric_arrays[a]
  /\ metric_arrays[a][i].metric.enabled # enabled
  /\ metric_arrays' = [metric_arrays EXCEPT ![a][i].metric.enabled = enabled]
  /\ Called("host")
  /\ UNCHANGED <<context, system_configs, buffers, detector_ctx,
                 ret, evaluated, trend_out, added, lifecycle>>

-----------------------------------------------------------------------------
(* Host threads: each call executed statement by statement *)

\* configuration 1: "cpu" (float, capacity 2, a threshold and a trend algorithm) and
\* "mem" (uint32, capacity 1, a detector that always fails); configuration 2: "cpu"
\* (float, capacity 2, a threshold); the two share no metric, buffer or detector
ThreadConfigs ==
  << [metrics |-> 1, max_metrics |-> 2, num_active_metrics |-> 2],
     [metrics |-> 2, max_metrics |-> 1, num_active_metrics |-> 1],
     ZeroedSystemConfig >>

ThreadMetrics ==
  << << MetricConfig(BasicMetric(cpu_usage, "EMBEDIDS_METRIC_TYPE_FLOAT", 1, 2),
                     << MaxThreshold(1), TrendAlgorithm(2) >>, 2),
        MetricConfig(BasicMetric(memory_usage, "EMBEDIDS_METRIC_TYPE_UINT32", 2, 1),
                     << CustomAlgorithm("always_fail_algorithm", NULL) >>, 1) >>,
     << MetricConfig(BasicMetric(cpu_usage, "EMBEDIDS_METRIC_TYPE_FLOAT", 3, 2),
                     << MaxThreshold(1) >>, 1) >> >>

\* the configurations before any sample
ThreadSetup ==
  /\ system_configs = ThreadConfigs
  /\ metric_arrays = ThreadMetrics
  /\ buffers = << Zeros(2), Zeros(1), Zeros(2) >>
  /\ added = [a \in 1..2 |-> [i \in DOMAIN ThreadMetrics[a] |-> << >>]]

\* the configurations after the samples 2 and 1 were added to the "cpu" of
\* configuration 1, filling its history
WarmSetup ==
  LET samples == << [value |-> 2, timestamp_ms |-> 1000],
                    [value |-> 1, timestamp_ms |-> 2000] >>
  IN /\ system_configs = ThreadConfigs
     /\ metric_arrays = [ThreadMetrics EXCEPT ![1][1].metric.current_size = 2]
     /\ buffers = << samples, Zeros(1), Zeros(2) >>
     /\ added = [a \in 1..2 |->
                   [i \in DOMAIN ThreadMetrics[a] |->
                      IF a = 1 /\ i = 1 THEN samples ELSE << >>]]

\* a thread that has called nothing yet: ctx is the context it passes to every
\* call, config the configuration it binds; a, mi, i, j, w, s are the locals and
\* registers of the call in progress; solo and expect are history: the memory and
\* the result of the thread's calls had they run with no other thread
IdleThread(ctx, config) ==
  [pc |-> "idle", ctx |-> ctx, config |-> config, op |-> "none",
   name |-> cpu_usage, value |-> 0, timestamp_ms |-> 0,
   a |-> 0, mi |-> 0, i |-> 0, j |-> 0, w |-> 0, s |-> 0, nested |-> FALSE,
   result |-> EMBEDIDS_OK, trend |-> NoTrend,
   started |-> FALSE, begun |-> 0, lifecycles |-> 0, overlapped |-> FALSE,
   solo |-> Mem, expect |-> [result |-> EMBEDIDS_OK, trend |-> NoTrend]]

\* faulty variant: every thread passes the first context
ThreadMem_one_context(t) == Mem

\* the memory as the calls of thread t reach it: through the context t passes
ThreadMem(t) ==
  [Mem EXCEPT !.context = IF threads[t].ctx = 1 THEN context ELSE context2]

\* return r;
Returned(th, r) ==
  [th EXCEPT !.pc = "idle", !.result = r, !.a = 0, !.mi = 0, !.i = 0, !.j = 0,
             !.w = 0, !.s = 0, !.nested = FALSE]

\* the statements of embedids_add_datapoint. The loads of write_index and
\* current_size after the first may be served from a register or from memory.
add_datapoint_step(M, th) ==
  LET metric == M.metric_arrays[th.a][th.mi].metric IN
  CASE th.pc = "add_check" ->
         LET status == add_datapoint_status(M, CTX, th.name) IN
         IF status # EMBEDIDS_OK
         THEN {[th |-> Returned(th, status), mem |-> M]}
         ELSE {[th |-> [th EXCEPT !.pc = "add_value",
                                  !.a = M.system_configs[M.context.system_config].metrics,
                                  !.mi = find_metric_config(M, CTX, th.name)],
                mem |-> M]}
    [] th.pc = "add_value" ->
         {[th |-> [th EXCEPT !.pc = "add_timestamp", !.w = metric.write_index],
           mem |-> [M EXCEPT !.buffers[metric.history][metric.write_index + 1].value =
                               th.value]]}
    [] th.pc = "add_timestamp" ->
         {[th |-> [th EXCEPT !.pc = "add_cursor_load", !.w = w],
           mem |-> [M EXCEPT !.buffers[metric.history][w + 1].timestamp_ms =
                               th.timestamp_ms]] : w \in {th.w, metric.write_index}}
    [] th.pc = "add_cursor_load" ->
         {[th |-> [th EXCEPT !.pc = "add_cursor_store", !.w = w], mem |-> M] :
            w \in {th.w, metric.write_index}}
    [] th.pc = "add_cursor_store" ->
         {[th |-> [th EXCEPT !.pc = "add_size_test"],
           mem |-> [M EXCEPT !.metric_arrays[th.a][th.mi].metric.write_index =
                               (th.w + 1) % metric.max_history_size]]}
    [] th.pc = "add_size_test" ->
         IF metric.current_size < metric.max_history_size
         THEN {[th |-> [th EXCEPT !.pc = "add_size_store", !.s = metric.current_size],
                mem |-> M]}
         ELSE {[th |-> Returned(th, EMBEDIDS_OK), mem |-> M]}
    [] th.pc = "add_size_store" ->
         {[th |-> Returned(th, EMBEDIDS_OK),
           mem |-> [M EXCEPT !.metric_arrays[th.a][th.mi].metric.current_size = size + 1]] :
            size \in {th.s, metric.current_size}}

\* faulty variant: the loop of embedids_analyze_all takes the same entry again
analysis_returned_same_entry(th, r) ==
  IF th.nested /\ r = EMBEDIDS_OK
  THEN [th EXCEPT !.pc = "all_loop", !.nested = FALSE]
  ELSE Returned(th, r)

\* return from embedids_analyze_metric: to the loop of embedids_analyze_all when
\* that called it and the result is EMBEDIDS_OK, to the host otherwise
analysis_returned(th, r) ==
  IF th.nested /\ r = EMBEDIDS_OK
  THEN [th EXCEPT !.pc = "all_loop", !.i = @ + 1, !.nested = FALSE]
  ELSE Returned(th, r)

\* the statements of embedids_analyze_all and embedids_analyze_metric, one loop
\* iteration a step
analyze_step(M, th) ==
  CASE th.pc = "all_check" ->
         IF ~M.context.initialized
         THEN {[th |-> Returned(th, EMBEDIDS_ERROR_NOT_INITIALIZED), mem |-> M]}
         ELSE {[th |-> [th EXCEPT !.pc = "all_loop", !.i = 1], mem |-> M]}
    [] th.pc = "all_loop" ->
         LET cfg == M.system_configs[M.context.system_config] IN
         IF th.i > cfg.num_active_metrics
         THEN {[th |-> Returned(th, EMBEDIDS_OK), mem |-> M]}
         ELSE IF M.metric_arrays[cfg.metrics][th.i].metric.enabled
         THEN {[th |-> [th EXCEPT !.pc = "metric_check", !.nested = TRUE,
                                  !.name = M.metric_arrays[cfg.metrics][th.i].metric.name],
                mem |-> M]}
         ELSE {[th |-> [th EXCEPT !.i = @ + 1], mem |-> M]}
    [] th.pc = "metric_check" ->
         LET status == analyze_metric_status(M, CTX, th.name) IN
         IF status # EMBEDIDS_OK
         THEN {[th |-> analysis_returned(th, status), mem |-> M]}
         ELSE {[th |-> [th EXCEPT !.pc = "metric_loop", !.j = 1,
                                  !.a = M.system_configs[M.context.system_config].metrics,
                                  !.mi = find_metric_config(M, CTX, th.name)],
                mem |-> M]}
    [] th.pc = "metric_loop" ->
         LET config == M.metric_arrays[th.a][th.mi] IN
         IF th.j > config.num_algorithms
         THEN {[th |-> analysis_returned(th, EMBEDIDS_OK), mem |-> M]}
         ELSE IF ~config.algorithms[th.j].enabled
         THEN {[th |-> [th EXCEPT !.j = @ + 1], mem |-> M]}
         ELSE LET r == run_algorithm(M, config.metric, config.algorithms[th.j]) IN
              IF r.result # EMBEDIDS_OK
              THEN {[th |-> analysis_returned(th, r.result), mem |-> r.mem]}
              ELSE {[th |-> [th EXCEPT !.j = @ + 1], mem |-> r.mem]}

\* the statements of embedids_get_trend, one loop iteration a step; the sums the
\* iterations accumulate are taken when the loop ends, over the samples it read
get_trend_step(M, th) ==
  CASE th.pc = "trend_check" ->
         LET r == embedids_get_trend(M, CTX, th.name, 1)
             a == M.system_configs[M.context.system_config].metrics
             mi == find_metric_config(M, CTX, th.name)
         IN IF r.result # EMBEDIDS_OK
            THEN {[th |-> Returned(th, r.result), mem |-> M]}
            ELSE IF M.metric_arrays[a][mi].metric.current_size < 2
            THEN {[th |-> Returned([th EXCEPT !.trend = EMBEDIDS_TREND_STABLE],
                                   EMBEDIDS_OK), mem |-> M]}
            ELSE {[th |-> [th EXCEPT !.pc = "trend_loop", !.a = a, !.mi = mi, !.i = 0],
                   mem |-> M]}
    [] th.pc = "trend_loop" ->
         LET size == M.metric_arrays[th.a][th.mi].metric.current_size
             num_points == IF size < 3 THEN size ELSE 3
         IN IF th.i < num_points - 1
            THEN {[th |-> [th EXCEPT !.i = @ + 1], mem |-> M]}
            ELSE {[th |-> Returned([th EXCEPT !.trend =
                                      trend_of(M, M.metric_arrays[th.a][th.mi].metric)],
                                   EMBEDIDS_OK), mem |-> M]}

\* the statements of embedids_reset_all_metrics, one loop iteration a step
reset_step(M, th) ==
  CASE th.pc = "reset_check" ->
         IF ~M.context.initialized
         THEN {[th |-> Returned(th, EMBEDIDS_ERROR_NOT_INITIALIZED), mem |-> M]}
         ELSE {[th |-> [th EXCEPT !.pc = "reset_loop", !.i = 1,
                                  !.a = M.system_configs[M.context.system_config].metrics],
                mem |-> M]}
    [] th.pc = "reset_loop" ->
         IF th.i > M.system_configs[M.context.system_config].num_active_metrics
         THEN {[th |-> Returned(th, EMBEDIDS_OK), mem |-> M]}
         ELSE LET metric == M.metric_arrays[th.a][th.i].metric
                  M1 == [M EXCEPT !.metric_arrays[th.a][th.i].metric.current_size = 0,
                                  !.metric_arrays[th.a][th.i].metric.write_index = 0]
              IN {[th |-> [th EXCEPT !.i = @ + 1],
                   mem |-> IF metric.history # NULL
                           THEN [M1 EXCEPT !.buffers[metric.history] =
                                             zero_fill(@, metric)]
                           ELSE M1]}

\* embedids_init and embedids_cleanup: stores to the context only
lifecycle_step(M, th) ==
  CASE th.pc = "init_call" ->
         LET r == embedids_init(M, CTX, th.config)
         IN {[th |-> Returned(th, r.result), mem |-> r.mem]}
    [] th.pc = "cleanup_call" ->
         {[th |-> Returned(th, EMBEDIDS_OK), mem |-> embedids_cleanup(M, CTX)]}

\* the call as one step on memory M: what it returns and leaves when nothing
\* runs between its statements
Alone(M, th) ==
  CASE th.op = "embedids_add_datapoint" ->
         LET r == embedids_add_datapoint(M, CTX, th.name, th.value, th.timestamp_ms,
                                         "trap")
         IN [result |-> r.result, mem |-> r.mem, trend |-> NoTrend]
    [] th.op = "embedids_analyze_metric" ->
         LET r == embedids_analyze_metric(M, CTX, th.name, << >>)
         IN [result |-> r.result, mem |-> r.mem, trend |-> NoTrend]
    [] th.op = "embedids_analyze_all" ->
         LET r == embedids_analyze_all(M, CTX)
         IN [result |-> r.result, mem |-> r.mem, trend |-> NoTrend]
    [] th.op = "embedids_get_trend" ->
         LET r == embedids_get_trend(M, CTX, th.name, 1)
         IN [result |-> r.result, mem |-> M,
             trend |-> IF r.written THEN r.trend ELSE NoTrend]
    [] th.op = "embedids_reset_all_metrics" ->
         LET r == embedids_reset_all_metrics(M, CTX)
         IN [result |-> r.result, mem |-> r.mem, trend |-> NoTrend]
    [] th.op = "embedids_init" ->
         LET r == embedids_init(M, CTX, th.config)
         IN [result |-> r.result, mem |-> r.mem, trend |-> NoTrend]
    [] th.op = "embedids_cleanup" ->
         [result |-> EMBEDIDS_OK, mem |-> embedids_cleanup(M, CTX), trend |-> NoTrend]

\* the calls a thread makes, with the first statement of each
CallChoices ==
  {[op |-> "embedids_add_datapoint", name |-> n, pc |-> "add_check"] :
     n \in {cpu_usage, memory_usage}}
  \cup {[op |-> "embedids_analyze_metric", name |-> n, pc |-> "metric_check"] :
          n \in {cpu_usage, memory_usage}}
  \cup {[op |-> "embedids_analyze_all", name |-> cpu_usage, pc |-> "all_check"],
        [op |-> "embedids_get_trend", name |-> cpu_usage, pc |-> "trend_check"],
        [op |-> "embedids_reset_all_metrics", name |-> cpu_usage, pc |-> "reset_check"]}

LifecycleChoices ==
  {[op |-> "embedids_init", name |-> cpu_usage, pc |-> "init_call"],
   [op |-> "embedids_cleanup", name |-> cpu_usage, pc |-> "cleanup_call"]}

\* thread t calls: embedids_init first; two threads passing the same context
\* call embedids_add_datapoint only. Thread t passes the value t.
BeginCall(t) ==
  LET th == threads[t]
      busy == \E u \in DOMAIN threads : u # t /\ threads[u].pc # "idle"
      choices ==
        IF ~th.started THEN {c \in LifecycleChoices : c.op = "embedids_init"}
        ELSE {c \in CallChoices :
                /\ threads[1].begun + threads[2].begun < MaxCalls
                /\ threads[1].ctx = threads[2].ctx => c.op = "embedids_add_datapoint"}
             \cup {c \in LifecycleChoices :
                     /\ threads[1].lifecycles + threads[2].lifecycles < MaxLifecycle
                     /\ threads[1].ctx # threads[2].ctx}
  IN /\ th.pc = "idle"
     /\ \E c \in choices :
          LET called == [th EXCEPT !.pc = c.pc, !.op = c.op, !.name = c.name,
                                   !.value = t, !.timestamp_ms = 1000 * t,
                                   !.trend = NoTrend, !.started = TRUE,
                                   !.overlapped = busy,
                                   !.begun = IF c \in CallChoices THEN @ + 1 ELSE @,
                                   !.lifecycles = IF c \in CallChoices \/ ~th.started
                                                  THEN @ ELSE @ + 1]
              alone == Alone(th.solo, called)
          IN threads' =
               [u \in DOMAIN threads |->
                  IF u = t
                  THEN [called EXCEPT !.solo = alone.mem,
                                      !.expect = [result |-> alone.result,
                                                  trend |-> alone.trend]]
                  ELSE [threads[u] EXCEPT !.overlapped = @ \/ threads[u].pc # "idle"]]
     /\ UNCHANGED <<context, context2, system_configs, metric_arrays, buffers,
                    detector_ctx, ret, call, evaluated, trend_out, added, validated,
                    described, lifecycle>>

\* thread t executes the statement o of its call: o.th is the thread, o.mem the
\* memory after it
Commit(t, o) ==
  LET th == threads[t] IN
  /\ threads' = [threads EXCEPT ![t] = o.th]
  /\ IF th.ctx = 1
     THEN context' = o.mem.context /\ UNCHANGED context2
     ELSE context2' = o.mem.context /\ UNCHANGED context
  /\ system_configs' = o.mem.system_configs
  /\ metric_arrays' = o.mem.metric_arrays
  /\ buffers' = o.mem.buffers
  /\ detector_ctx' = o.mem.detector_ctx
  /\ IF o.th.pc = "idle"
     THEN /\ ret' = o.th.result
          /\ call' = th.op
          /\ trend_out' = o.th.trend
          /\ added' =
               IF o.th.result # EMBEDIDS_OK THEN added
               ELSE IF th.op = "embedids_add_datapoint"
               THEN [added EXCEPT ![th.a][th.mi] =
                       Append(@, [value |-> th.value, timestamp_ms |-> th.timestamp_ms])]
               ELSE IF th.op = "embedids_reset_all_metrics"
               THEN [added EXCEPT ![th.a] = [i \in DOMAIN @ |-> << >>]]
               ELSE added
     ELSE UNCHANGED <<ret, call, trend_out, added>>
  /\ UNCHANGED <<evaluated, validated, described, lifecycle>>

AddDataPointStep(t) ==
  /\ threads[t].op = "embedids_add_datapoint" /\ threads[t].pc # "idle"
  /\ \E o \in add_datapoint_step(ThreadMem(t), threads[t]) : Commit(t, o)

AnalyzeStep(t) ==
  /\ threads[t].op \in {"embedids_analyze_metric", "embedids_analyze_all"}
  /\ threads[t].pc # "idle"
  /\ \E o \in analyze_step(ThreadMem(t), threads[t]) : Commit(t, o)

GetTrendStep(t) ==
  /\ threads[t].op = "embedids_get_trend" /\ threads[t].pc # "idle"
  /\ \E o \in get_trend_step(ThreadMem(t), threads[t]) : Commit(t, o)

ResetStep(t) ==
  /\ threads[t].op = "embedids_reset_all_metrics" /\ threads[t].pc # "idle"
  /\ \E o \in reset_step(ThreadMem(t), threads[t]) : Commit(t, o)

LifecycleStep(t) ==
  /\ threads[t].op \in {"embedids_init", "embedids_cleanup"} /\ threads[t].pc # "idle"
  /\ \E o \in lifecycle_step(ThreadMem(t), threads[t]) : Commit(t, o)

\* the next statement of the call thread t is in
Continue(t) ==
  \/ AddDataPointStep(t)
  \/ AnalyzeStep(t)
  \/ GetTrendStep(t)
  \/ ResetStep(t)
  \/ LifecycleStep(t)

-----------------------------------------------------------------------------
(* Specifications *)

RECURSIVE SumLen(_)
SumLen(logs) == IF logs = << >> THEN 0 ELSE Len(Head(logs)) + SumLen(Tail(logs))

TotalAdded == SumLen(added[1]) + SumLen(added[2])

\* the timestamp of the next sample of a run that numbers its samples
NextTimestamp == 1000 + TotalAdded * 1000

InvocationsLeft == \A d \in DOMAIN detector_ctx : detector_ctx[d] < MaxInvocations

Next ==
  \/ \E c \in CtxPtrs, config \in ConfigPtrs : Initialize(c, config)
  \/ \E c \in CtxPtrs : Cleanup(c)
  \/ \E c \in CtxPtrs : IsInitialized(c)
  \/ /\ TotalAdded < MaxSamples
     /\ \E c \in CtxPtrs, n \in Names, v \in Values, t \in {1000} :
          AddDataPoint(c, n, v, t)
  \/ /\ InvocationsLeft
     /\ \E c \in CtxPtrs, n \in Names : AnalyzeMetric(c, n)
  \/ /\ InvocationsLeft
     /\ \E c \in CtxPtrs : AnalyzeAll(c)
  \/ \E c \in CtxPtrs, n \in Names, t \in {NULL, 1} : GetTrend(c, n, t)
  \/ \E c \in CtxPtrs : ResetAllMetrics(c)
  \/ \E i \in 1..2, e \in BOOLEAN : SetMetricEnabled(1, i, e)

Spec == Init /\ [][Next]_vars

NextRing ==
  \/ \E c \in CtxPtrs, config \in {NULL, 1} : Initialize(c, config)
  \/ \E c \in CtxPtrs : Cleanup(c)
  \/ /\ TotalAdded < MaxAdds
     /\ \E c \in CtxPtrs, n \in {cpu_usage}, v \in Values, t \in {NextTimestamp} :
          AddDataPoint(c, n, v, t)
  \/ \E c \in CtxPtrs, n \in {cpu_usage} : AnalyzeMetric(c, n)
  \/ \E c \in CtxPtrs : AnalyzeAll(c)
  \/ \E c \in CtxPtrs, n \in {cpu_usage}, t \in {1} : GetTrend(c, n, t)
  \/ \E c \in CtxPtrs : ResetAllMetrics(c)

SpecRing == InitRing /\ [][NextRing]_vars

\* the process has ended inside embedids_add_datapoint
Halted == call = "embedids_add_datapoint" /\ ret = PROCESS_TERMINATED

NextAnalysis ==
  \/ /\ ~Halted
     /\ Initialize(CTX, 1)
  \/ /\ ~Halted
     /\ TotalAdded < MaxSamples
     /\ \E n \in {cpu_usage, memory_usage}, v \in SampleValues :
          AddDataPoint(CTX, n, v, 1000)
  \/ /\ ~Halted
     /\ InvocationsLeft
     /\ \E n \in {cpu_usage, memory_usage} : AnalyzeMetric(CTX, n)
  \/ /\ ~Halted
     /\ InvocationsLeft
     /\ AnalyzeAll(CTX)
  \/ /\ ~Halted
     /\ ResetAllMetrics(CTX)

SpecAnalysis == InitAnalysis /\ [][NextAnalysis]_vars

\* the values the host may add next: a start value, or the last value plus a step
NextValues ==
  IF added[1][1] = << >> THEN TrendStarts
  ELSE {added[1][1][Len(added[1][1])].value + d : d \in TrendSteps} \cap Nat

\* how many samples the host adds to the metric between two resets
TrendAdds ==
  IF metric_arrays[1][1].metric.type = "EMBEDIDS_METRIC_TYPE_FLOAT"
  THEN MaxAdds ELSE MaxTypedAdds

NextTrend ==
  \/ /\ ~context.initialized
     /\ Initialize(CTX, 1)
  \/ /\ TotalAdded < TrendAdds
     /\ \E v \in NextValues : AddDataPoint(CTX, cpu_usage, v, NextTimestamp)
  \/ GetTrend(CTX, cpu_usage, 1)
  \/ ResetAllMetrics(CTX)

SpecTrend == InitTrend /\ [][NextTrend]_vars

NextBuiltin ==
  \/ \E c \in CtxPtrs, config \in {NULL, 1} : Initialize(c, config)
  \/ Cleanup(CTX)
  \/ /\ TotalAdded < MaxSamples
     /\ \E c \in CtxPtrs, n \in Names, v \in Values : AddDataPoint(c, n, v, 1000)
  \/ \E c \in CtxPtrs, n \in Names : AnalyzeMetric(c, n)
  \/ \E c \in CtxPtrs : AnalyzeAll(c)
  \/ \E c \in CtxPtrs, n \in Names, t \in {NULL, 1} : GetTrend(c, n, t)
  \/ \E c \in CtxPtrs : ResetAllMetrics(c)
  \/ \E config \in {NULL} \cup DOMAIN system_configs : ValidateConfig(config)
  \/ \E error_code \in DeclaredResults \cup UndeclaredResults :
       GetErrorString(error_code)
  \/ \E i \in 1..2, e \in BOOLEAN : SetMetricEnabled(1, i, e)

SpecBuiltin == InitBuiltin /\ [][NextBuiltin]_vars

NextLookup ==
  \/ /\ ~context.initialized
     /\ Initialize(CTX, 1)
  \/ /\ TotalAdded < MaxSamples
     /\ \E n \in LookupNames, v \in Values : AddDataPoint(CTX, n, v, 1000)
  \/ \E n \in LookupNames : AnalyzeMetric(CTX, n)
  \/ \E n \in LookupNames : GetTrend(CTX, n, 1)
  \/ \E i \in 1..2, e \in BOOLEAN : SetMetricEnabled(1, i, e)

SpecLookup == InitLookup /\ [][NextLookup]_vars

\* what the thread runs start from, but for the configurations and the threads
InitThreadsRest ==
  /\ context = ZeroedContext
  /\ context2 = ZeroedContext
  /\ detector_ctx = [d \in {1} |-> 0]
  /\ ret = EMBEDIDS_OK
  /\ call = "none"
  /\ evaluated = << >>
  /\ trend_out = NoTrend
  /\ validated = NOT_VALIDATED
  /\ described = "none"
  /\ lifecycle = "none"

\* two threads, each with a context and a configuration of its own, or both
\* passing the first context
InitThreads ==
  /\ ThreadSetup
  /\ InitThreadsRest
  /\ \E second \in {<<2, 2>>, <<1, 1>>} :
       threads = << IdleThread(1, 1), IdleThread(second[1], second[2]) >>

\* the same two threads on a filled history, with two calls left between them
\* besides the embedids_init each begins with
InitThreadsFair ==
  /\ WarmSetup
  /\ InitThreadsRest
  /\ \E second \in {<<2, 2>>, <<1, 1>>} :
       threads = << [IdleThread(1, 1) EXCEPT !.begun = MaxCalls - 2,
                                             !.lifecycles = MaxLifecycle],
                    IdleThread(second[1], second[2]) >>

\* the statements of the calls of both threads in any order
NextThreads == \E t \in 1..2 : BeginCall(t) \/ Continue(t)

SpecThreads == InitThreads /\ [][NextThreads]_vars

\* a thread that is in a call is scheduled again
SpecThreadsFair ==
  /\ InitThreadsFair
  /\ [][NextThreads]_vars
  /\ WF_vars(Continue(1))
  /\ WF_vars(Continue(2))

\* two threads, each with a context of its own, both bound to configuration 1
InitShared ==
  /\ ThreadSetup
  /\ InitThreadsRest
  /\ threads = << IdleThread(1, 1), IdleThread(2, 1) >>

\* the host lets one thread at a time be in a call
NextShared ==
  \E t \in 1..2 :
    /\ \A u \in 1..2 : u # t => threads[u].pc = "idle"
    /\ BeginCall(t) \/ Continue(t)

SpecShared == InitShared /\ [][NextShared]_vars

-----------------------------------------------------------------------------
(* Claims *)

AllMetrics ==
  {metric_arrays[a][i].metric : <<a, i>> \in
     {p \in (DOMAIN metric_arrays) \X (1..2) : p[2] \in DOMAIN metric_arrays[p[1]]}}

\* C1: in every reachable state every metric that started empty with a capacity
\* of at least 1 has 0 <= write cursor < capacity and current size <= capacity.
C1_CursorAndSizeInBounds ==
  \A m \in AllMetrics :
    m.max_history_size >= 1 =>
      /\ 0 <= m.write_index
      /\ m.write_index < m.max_history_size
      /\ m.current_size <= m.max_history_size

\* a metric of capacity >= 2 whose cursor has just wrapped to 0 on a full buffer
C1_Witness ==
  /\ call = "embedids_add_datapoint"
  /\ ret = EMBEDIDS_OK
  /\ \E m \in AllMetrics :
       /\ m.max_history_size >= 2
       /\ m.current_size = m.max_history_size
       /\ m.write_index = 0

RingMetric == metric_arrays[1][1].metric

\* the ring describes exactly the n samples accepted since the metric was empty
RingHoldsMostRecent ==
  LET m == RingMetric
      n == Len(added[1][1])
      C == m.max_history_size
      held == IF n < C THEN n ELSE C
  IN /\ m.current_size = held
     /\ m.write_index = n % C
     /\ \A k \in 1..held :
          buffers[m.history][((m.write_index - k) % C) + 1] = added[1][1][n - k + 1]

\* an AddDataPoint to the enabled metric through the initialized context returns Ok
AddToRingReturnsOk ==
  (/\ context.initialized
   /\ RingMetric.enabled
   /\ \E v \in Values, t \in Timestamps : AddDataPoint(CTX, cpu_usage, v, t))
  => ret' = EMBEDIDS_OK

EngineState == <<context, system_configs, metric_arrays, buffers, detector_ctx>>

HostMemory == <<system_configs, metric_arrays, buffers, detector_ctx>>

Initialized == lifecycle \in {"init", "reinit"}

SomeMetricHoldsData == \E m \in AllMetrics : m.current_size > 0

\* C3: on a context that was never initialized or has been cleaned up, AddDataPoint,
\* AnalyzeMetric, AnalyzeAll and ResetAllMetrics return NotInitialized and change
\* neither the context nor any configuration, metric, buffer or detector state, and
\* dispatch no algorithm.
C3_UninitializedCallsChangeNothing ==
  [][(/\ ~Initialized
      /\ call' \in {"embedids_add_datapoint", "embedids_analyze_metric",
                    "embedids_analyze_all", "embedids_reset_all_metrics"})
     => (/\ ret' = EMBEDIDS_ERROR_NOT_INITIALIZED
         /\ UNCHANGED EngineState
         /\ evaluated' = << >>)]_vars

\* a reset refused on a cleaned-up context whose former configuration holds samples
C3_Witness ==
  /\ call = "embedids_reset_all_metrics"
  /\ ret = EMBEDIDS_ERROR_NOT_INITIALIZED
  /\ lifecycle = "cleanup"
  /\ SomeMetricHoldsData

\* C4: IsInitialized is true exactly when the most recent of the successful
\* Initialize calls and the Cleanup calls on the context was an Initialize, and it
\* is false for an absent context.
C4_IsInitializedFollowsLifecycle ==
  /\ embedids_is_initialized(Mem, CTX) = Initialized
  /\ embedids_is_initialized(Mem, NULL) = FALSE
  /\ call = "embedids_is_initialized" => (ret \in BOOLEAN /\ (ret => Initialized))

\* IsInitialized answered true on a context initialized again after other calls
C4_Witness ==
  /\ call = "embedids_is_initialized"
  /\ ret = TRUE
  /\ lifecycle = "reinit"
  /\ SomeMetricHoldsData

\* C5: Cleanup leaves the context zeroed whatever its lifecycle state, a second
\* Cleanup changes nothing more, and Cleanup of an already cleaned-up context
\* changes nothing.
C5_CleanupIdempotent ==
  [][(call' = "embedids_cleanup" /\ Cleanup(CTX))
     => (/\ context' = ZeroedContext
         /\ embedids_cleanup(Mem', CTX) = Mem'
         /\ (lifecycle = "cleanup" => Mem' = Mem))]_vars

\* a cleaned-up context that had been initialized and used
C5_Witness ==
  /\ call = "embedids_cleanup"
  /\ lifecycle = "cleanup"
  /\ context = ZeroedContext
  /\ TotalAdded > 0

\* C6: Cleanup modifies only the context: the configurations, every metric (buffer
\* contents, current size, write cursor, enabled flag, algorithm list) and every
\* detector context are unchanged by it.
C6_CleanupTouchesOnlyContext ==
  [][call' = "embedids_cleanup" => UNCHANGED HostMemory]_vars

\* after a cleanup the samples and the detector's count are still there
C6_Witness ==
  /\ call = "embedids_cleanup"
  /\ lifecycle = "cleanup"
  /\ metric_arrays[1][1].metric.current_size > 0
  /\ ~metric_arrays[1][2].metric.enabled
  /\ detector_ctx[1] > 0

\* C7: Initialize with an absent context or an absent configuration returns
\* InvalidParam and changes nothing: an uninitialized context stays uninitialized,
\* an initialized one stays bound to its configuration.
C7_InitializeRejectsAbsentArguments ==
  [][\A c \in CtxPtrs, config \in ConfigPtrs :
       (/\ call' = "embedids_init"
        /\ c = NULL \/ config = NULL
        /\ Initialize(c, config))
       => (/\ ret' = EMBEDIDS_ERROR_INVALID_PARAM
           /\ UNCHANGED EngineState
           /\ UNCHANGED lifecycle)]_vars

\* a refused Initialize on a context that stays bound to configuration 1
C7_Witness ==
  /\ call = "embedids_init"
  /\ ret = EMBEDIDS_ERROR_INVALID_PARAM
  /\ context = [system_config |-> 1, initialized |-> TRUE]

\* the operations that reach metrics through the context
MetricOps == {"embedids_add_datapoint", "embedids_analyze_metric",
              "embedids_analyze_all", "embedids_get_trend",
              "embedids_reset_all_metrics"}

\* a step leaves alone every metric array and buffer of the configurations the
\* context is not bound to, and dispatches algorithms of the bound one only
OnlyBoundConfigurationUsed ==
  /\ \A a \in DOMAIN metric_arrays :
       a # BoundArray =>
         /\ metric_arrays'[a] = metric_arrays[a]
         /\ \A i \in DOMAIN metric_arrays[a] :
              metric_arrays[a][i].metric.history # NULL =>
                buffers'[metric_arrays[a][i].metric.history]
                  = buffers[metric_arrays[a][i].metric.history]
  /\ \A k \in 1..Len(evaluated') : evaluated'[k][1] = BoundArray

\* C8: Initialize with a present context and a present configuration returns Ok
\* whatever the configuration holds and whatever the lifecycle state (never
\* AlreadyInitialized), binds the context to that configuration and touches nothing
\* else; later operations act on the bound configuration's metrics only.
C8_InitializeAlwaysBinds ==
  [][/\ \A config \in ConfigPtrs \ {NULL} :
          (call' = "embedids_init" /\ Initialize(CTX, config))
          => (/\ ret' = EMBEDIDS_OK
              /\ context' = [system_config |-> config, initialized |-> TRUE]
              /\ UNCHANGED HostMemory)
     /\ call' \in MetricOps => OnlyBoundConfigurationUsed]_vars

\* the context, which took samples bound to configuration 1 and then bound to
\* configuration 2, is initialized once more, with the zeroed configuration that
\* embedids_validate_config rejects
C8_Witness ==
  /\ call = "embedids_init"
  /\ ret = EMBEDIDS_OK
  /\ lifecycle = "reinit"
  /\ context = [system_config |-> 3, initialized |-> TRUE]
  /\ embedids_validate_config(Mem, 3) # EMBEDIDS_OK
  /\ Len(added[1][1]) > 0
  /\ Len(added[2][1]) > 0

\* the active entries of the bound configuration whose name is n
Matching(n) ==
  IF context.system_config = NULL THEN {}
  ELSE {i \in 1..system_configs[context.system_config].num_active_metrics :
          metric_arrays[BoundArray][i].metric.name = n}

Matched(n) == metric_arrays[BoundArray][MinOf(Matching(n))].metric

\* C9: AddDataPoint returns the first applicable of: NotInitialized (context absent
\* or not initialized), InvalidParam (name absent), MetricNotFound (no active metric
\* matches), MetricDisabled (the matched metric is disabled, also without buffer),
\* InvalidParam (buffer reference absent), otherwise Ok.
C9_AddDataPointCheckOrder ==
  [][\A c \in CtxPtrs, n \in Names, v \in Values, t \in {1000} :
       (call' = "embedids_add_datapoint" /\ AddDataPoint(c, n, v, t))
       => ret' = IF c = NULL \/ ~Initialized THEN EMBEDIDS_ERROR_NOT_INITIALIZED
                 ELSE IF n = NULL_NAME THEN EMBEDIDS_ERROR_INVALID_PARAM
                 ELSE IF Matching(n) = {} THEN EMBEDIDS_ERROR_METRIC_NOT_FOUND
                 ELSE IF ~Matched(n).enabled THEN EMBEDIDS_ERROR_METRIC_DISABLED
                 ELSE IF Matched(n).history = NULL THEN EMBEDIDS_ERROR_INVALID_PARAM
                 ELSE EMBEDIDS_OK]_vars

\* MetricDisabled returned for the disabled metric that has no buffer
C9_Witness ==
  /\ call = "embedids_add_datapoint"
  /\ ret = EMBEDIDS_ERROR_METRIC_DISABLED
  /\ context.system_config = 1
  /\ metric_arrays[1][1].metric.enabled
  /\ ~metric_arrays[1][2].metric.enabled
  /\ metric_arrays[1][2].metric.history = NULL

\* the enabled algorithm slots of a metric configuration, below its algorithm count
EnabledSlots(config) ==
  {k \in 1..config.num_algorithms : config.algorithms[k].enabled}

\* C10: AnalyzeMetric returns the first applicable of NotInitialized, InvalidParam
\* (name absent), MetricNotFound, MetricDisabled before any algorithm is evaluated
\* or detector invoked; only when none applies are the metric's algorithms
\* evaluated, starting with its first enabled one.
C10_AnalyzeMetricCheckOrder ==
  [][\A c \in CtxPtrs, n \in Names :
       (call' = "embedids_analyze_metric" /\ AnalyzeMetric(c, n))
       => LET refused ==
                IF c = NULL \/ ~Initialized THEN EMBEDIDS_ERROR_NOT_INITIALIZED
                ELSE IF n = NULL_NAME THEN EMBEDIDS_ERROR_INVALID_PARAM
                ELSE IF Matching(n) = {} THEN EMBEDIDS_ERROR_METRIC_NOT_FOUND
                ELSE IF ~Matched(n).enabled THEN EMBEDIDS_ERROR_METRIC_DISABLED
                ELSE EMBEDIDS_OK
          IN IF refused # EMBEDIDS_OK
             THEN /\ ret' = refused
                  /\ evaluated' = << >>
                  /\ UNCHANGED EngineState
             ELSE LET mi == MinOf(Matching(n))
                      slots == EnabledSlots(metric_arrays[BoundArray][mi])
                  IN IF slots = {} THEN evaluated' = << >> /\ ret' = EMBEDIDS_OK
                     ELSE /\ Len(evaluated') >= 1
                          /\ evaluated'[1][1] = BoundArray
                          /\ evaluated'[1][2] = mi
                          /\ evaluated'[1][3] = MinOf(slots)]_vars

\* MetricDisabled for the disabled "cpu", whose latest sample violates its bound
C10_Witness ==
  /\ call = "embedids_analyze_metric"
  /\ ret = EMBEDIDS_ERROR_METRIC_DISABLED
  /\ context.system_config = 1
  /\ ~metric_arrays[1][1].metric.enabled
  /\ metric_arrays[1][2].metric.enabled
  /\ metric_arrays[1][1].metric.current_size > 0
  /\ run_threshold_algorithm(Mem, metric_arrays[1][1].metric,
                             metric_arrays[1][1].algorithms[1].config)
       = EMBEDIDS_ERROR_THRESHOLD_EXCEEDED

\* C11: AddDataPoint on an enabled, registered metric whose capacity is 0 or whose
\* history reference is absent never returns Ok, writes no slot of any buffer and
\* leaves the metric's current size and write cursor unchanged.
C11_DegenerateMetricAcceptsNoData ==
  [][\A n \in {cpu_usage, memory_usage}, v \in SampleValues :
       (/\ call' = "embedids_add_datapoint"
        /\ Initialized
        /\ Matching(n) # {}
        /\ Matched(n).enabled
        /\ Matched(n).max_history_size = 0 \/ Matched(n).history = NULL
        /\ AddDataPoint(CTX, n, v, 1000))
       => (/\ ret' # EMBEDIDS_OK
           /\ buffers' = buffers
           /\ metric_arrays' = metric_arrays)]_vars

\* the verdict on a metric of the given type holding size samples, the latest v
ThresholdReference(type, size, v, config) ==
  IF size = 0 THEN EMBEDIDS_OK
  ELSE IF type = "EMBEDIDS_METRIC_TYPE_BOOL" THEN EMBEDIDS_OK
  ELSE IF \/ config.check_min /\ v < config.min_threshold
          \/ config.check_max /\ v > config.max_threshold
       THEN EMBEDIDS_ERROR_THRESHOLD_EXCEEDED
  ELSE EMBEDIDS_OK

\* the value of the sample accepted last (0 when none has been accepted)
LatestAdded(a, i) ==
  IF added[a][i] = << >> THEN 0 ELSE added[a][i][Len(added[a][i])].value

\* C12: the built-in Threshold algorithm passes on a metric holding no samples,
\* passes on a boolean metric whatever the bounds and flags, and on every ordered
\* type reports ThresholdExceeded exactly when (check_min and v < min) or
\* (check_max and v > max) for the latest value v.
C12_ThresholdEqualsReference ==
  \A a \in DOMAIN metric_arrays : \A i \in DOMAIN metric_arrays[a] :
    LET config == metric_arrays[a][i] IN
    (config.metric.history # NULL /\ config.metric.max_history_size >= 1) =>
      \A k \in DOMAIN config.algorithms :
        config.algorithms[k].type = "EMBEDIDS_ALGORITHM_THRESHOLD" =>
          run_threshold_algorithm(Mem, config.metric, config.algorithms[k].config)
            = ThresholdReference(config.metric.type, config.metric.current_size,
                                 LatestAdded(a, i), config.algorithms[k].config)

\* an enum metric analyzed as passing with its latest value equal to the enforced
\* maximum, both checks being on
C12_Witness ==
  /\ call = "embedids_analyze_metric"
  /\ ret = EMBEDIDS_OK
  /\ evaluated = << <<1, 1, 1, "builtin">> >>
  /\ metric_arrays[1][1].metric.type = "EMBEDIDS_METRIC_TYPE_ENUM"
  /\ metric_arrays[1][1].algorithms[1].config =
       [min_threshold |-> 2, max_threshold |-> 3, check_min |-> TRUE, check_max |-> TRUE]
  /\ metric_arrays[1][1].metric.current_size = 1
  /\ LatestAdded(1, 1) = 3

\* C13: after a successful AddDataPoint(name, v), AnalyzeMetric(name) on a metric
\* whose only enabled algorithm is a Threshold reports ThresholdExceeded exactly
\* when v violates an enabled bound, at every cursor position and whatever the
\* earlier samples; with no sample since the last reset it passes.
C13_AnalyzeJudgesLatestSample ==
  [][(/\ call' = "embedids_analyze_metric"
      /\ context.initialized
      /\ AnalyzeMetric(CTX, cpu_usage))
     => ret' = ThresholdReference(RingMetric.type, Len(added[1][1]), LatestAdded(1, 1),
                                  metric_arrays[1][1].algorithms[1].config)]_vars

\* a passing analysis right after the cursor wrapped to 0 on a full ring of three
\* that still holds an older violating sample
C13_Witness ==
  /\ call = "embedids_analyze_metric"
  /\ ret = EMBEDIDS_OK
  /\ RingMetric.max_history_size = 3
  /\ RingMetric.current_size = 3
  /\ RingMetric.write_index = 0
  /\ \E k \in 1..3 : buffers[1][k].value = 2
  /\ LatestAdded(1, 1) = 1

\* AnalyzeMetric(n) through the initialized context gets past its checks
Analyzable(n) == Initialized /\ Matching(n) # {} /\ Matched(n).enabled

\* the metric configuration a name resolves to
MatchedConfig(n) == metric_arrays[BoundArray][MinOf(Matching(n))]

\* how often the entries of ev invoke the counting detector whose context is d
Invocations(ev, d) ==
  Cardinality({j \in 1..Len(ev) :
     LET algorithm == metric_arrays[ev[j][1]][ev[j][2]].algorithms[ev[j][3]]
     IN /\ algorithm.type = "EMBEDIDS_ALGORITHM_CUSTOM"
        /\ algorithm.config.function = "type_checking_algorithm"
        /\ algorithm.config.context = d})

\* C14: only algorithms that are enabled and stored below the metric's algorithm
\* count influence AnalyzeMetric: no other slot is evaluated or has its detector
\* invoked, a non-Ok result comes from an evaluated slot, and with no such slot
\* (in particular with an algorithm count of 0) the result is Ok for any data.
C14_OnlyEnabledCountedAlgorithmsRun ==
  [][\A n \in {cpu_usage, memory_usage} :
       (/\ call' = "embedids_analyze_metric"
        /\ Analyzable(n)
        /\ AnalyzeMetric(CTX, n))
       => LET slots == EnabledSlots(MatchedConfig(n)) IN
          /\ \A j \in 1..Len(evaluated') :
               /\ evaluated'[j][1] = BoundArray
               /\ evaluated'[j][2] = MinOf(Matching(n))
               /\ evaluated'[j][3] \in slots
          /\ \A d \in DOMAIN detector_ctx :
               detector_ctx'[d] = detector_ctx[d] + Invocations(evaluated', d)
          /\ ret' # EMBEDIDS_OK => evaluated' # << >>
          /\ slots = {} => (ret' = EMBEDIDS_OK /\ UNCHANGED EngineState)]_vars

\* Ok for a sample above the bound of the disabled threshold in slot 1, with an
\* enabled always-failing detector in slot 2 and an algorithm count of 1
C14_Witness ==
  /\ call = "embedids_analyze_metric"
  /\ ret = EMBEDIDS_OK
  /\ evaluated = << >>
  /\ metric_arrays[1][1].num_algorithms = 1
  /\ Len(metric_arrays[1][1].algorithms) = 2
  /\ metric_arrays[1][1].algorithms[1] = WithEnabled(MaxThreshold(1), FALSE)
  /\ metric_arrays[1][1].algorithms[2] = CustomAlgorithm("always_fail_algorithm", NULL)
  /\ metric_arrays[1][1].metric.current_size = 1
  /\ LatestAdded(1, 1) = 4

\* the result of algorithm slot k of a metric configuration on the current data
SlotResult(config, k) == run_algorithm(Mem, config.metric, config.algorithms[k]).result

\* C15: AnalyzeMetric returns the result of the lowest-index enabled algorithm that
\* does not pass, or Ok if there is none; it evaluates the enabled algorithms up to
\* and including that one in increasing index order and none after it, so that a
\* detector stored after it is not invoked and its context is unchanged.
C15_AnalyzeMetricFailFast ==
  [][\A n \in {cpu_usage, memory_usage} :
       (/\ call' = "embedids_analyze_metric"
        /\ Analyzable(n)
        /\ AnalyzeMetric(CTX, n))
       => LET config == MatchedConfig(n)
              slots == EnabledSlots(config)
              failing == {k \in slots : SlotResult(config, k) # EMBEDIDS_OK}
              reached == IF failing = {} THEN slots
                         ELSE {k \in slots : k <= MinOf(failing)}
          IN /\ ret' = IF failing = {} THEN EMBEDIDS_OK
                       ELSE SlotResult(config, MinOf(failing))
             /\ Len(evaluated') = Cardinality(reached)
             /\ \A j \in 1..Len(evaluated') : evaluated'[j][3] \in reached
             /\ \A j \in 1..(Len(evaluated') - 1) :
                  evaluated'[j][3] < evaluated'[j + 1][3]
             /\ \A d \in DOMAIN detector_ctx :
                  detector_ctx'[d] = detector_ctx[d] + Invocations(evaluated', d)]_vars

\* the threshold in slot 1 fails and the counting detector in slot 2 is not invoked
C15_Witness ==
  /\ call = "embedids_analyze_metric"
  /\ ret = EMBEDIDS_ERROR_THRESHOLD_EXCEEDED
  /\ evaluated = << <<1, 1, 1, "builtin">> >>
  /\ metric_arrays[1][1].num_algorithms = 2
  /\ metric_arrays[1][1].algorithms[1] = MaxThreshold(1)
  /\ metric_arrays[1][1].algorithms[2] = CustomAlgorithm("type_checking_algorithm", 2)
  /\ detector_ctx[2] = 0

RECURSIVE metric_sweep(_, _, _, _)
\* the sweep the specification describes: the algorithms of each enabled active
\* metric from index i on, in index order, up to the first result that is not Ok
metric_sweep(M, a, i, ev) ==
  IF i > M.system_configs[M.context.system_config].num_active_metrics
  THEN [result |-> EMBEDIDS_OK, mem |-> M, ev |-> ev]
  ELSE IF M.metric_arrays[a][i].metric.enabled
       THEN LET r == analyze_algorithms(M, a, i, 1, ev)
            IN IF r.result # EMBEDIDS_OK THEN r
               ELSE metric_sweep(r.mem, a, i + 1, r.ev)
       ELSE metric_sweep(M, a, i + 1, ev)

\* C16: AnalyzeAll is fail-fast across metrics in stored order: it returns the
\* first non-Ok result of analyzing the enabled active metrics in increasing index
\* order, analyzes no metric after that one, and returns Ok when every enabled
\* metric passes.
C16_AnalyzeAllFailFastAcrossMetrics ==
  [][(/\ call' = "embedids_analyze_all"
      /\ Initialized
      /\ AnalyzeAll(CTX))
     => LET r == metric_sweep(Mem, BoundArray, 1, << >>)
        IN /\ ret' = r.result
           /\ evaluated' = r.ev
           /\ detector_ctx' = r.mem.detector_ctx]_vars

\* C17: AnalyzeAll skips disabled metrics entirely: it never returns
\* MetricDisabled, it returns Ok when no active metric is enabled, and no
\* algorithm of a disabled metric is evaluated.
C17_AnalyzeAllSkipsDisabledMetrics ==
  [][(/\ call' = "embedids_analyze_all"
      /\ Initialized
      /\ AnalyzeAll(CTX))
     => /\ ret' # EMBEDIDS_ERROR_METRIC_DISABLED
        /\ (\A i \in DOMAIN metric_arrays[BoundArray] :
              ~metric_arrays[BoundArray][i].metric.enabled) => ret' = EMBEDIDS_OK
        /\ \A j \in 1..Len(evaluated') :
             metric_arrays[evaluated'[j][1]][evaluated'[j][2]].metric.enabled]_vars

\* C18: a custom detector is invoked at most once per analysis pass per algorithm
\* slot: an AnalyzeMetric call invokes the detector of each slot it reaches exactly
\* once, so that a counting detector grows by one, or by zero when the call does
\* not reach it, and an AnalyzeAll call invokes the detector of a slot at most once.
C18_DetectorInvokedOncePerSlot ==
  [][/\ \A n \in {cpu_usage, memory_usage} :
          (/\ call' = "embedids_analyze_metric"
           /\ Analyzable(n)
           /\ AnalyzeMetric(CTX, n))
          => /\ \A j, k \in 1..Len(evaluated') :
                  evaluated'[j] = evaluated'[k] => j = k
             /\ \A d \in DOMAIN detector_ctx :
                  detector_ctx'[d] = detector_ctx[d] + Invocations(evaluated', d)
     /\ (/\ call' = "embedids_analyze_all"
         /\ Initialized
         /\ AnalyzeAll(CTX))
        => /\ \A j, k \in 1..Len(evaluated') :
                evaluated'[j] = evaluated'[k] => j = k
           /\ \A d \in DOMAIN detector_ctx :
                detector_ctx'[d] <= detector_ctx[d] + 1]_vars

\* the code the detector registered in an algorithm slot returns for the metric
DetectorCode(config, k) ==
  custom_function(Mem, config.metric, config.algorithms[k].config).result

\* C19: the result of an enabled Custom algorithm is exactly the code its detector
\* returns, and AnalyzeMetric returns that code unchanged when it is the first
\* non-Ok result; a Custom algorithm with no registered function passes.
C19_DetectorCodeReturnedUnchanged ==
  [][\A n \in {cpu_usage, memory_usage} :
       (/\ call' = "embedids_analyze_metric"
        /\ Analyzable(n)
        /\ AnalyzeMetric(CTX, n))
       => LET config == MatchedConfig(n)
              last == Len(evaluated')
          IN /\ \A j \in 1..last :
                  LET k == evaluated'[j][3] IN
                  /\ config.algorithms[k].type = "EMBEDIDS_ALGORITHM_CUSTOM"
                     <=> evaluated'[j][4] \in {"detector", "no_detector"}
                  /\ evaluated'[j][4] = "no_detector"
                     <=> (/\ config.algorithms[k].type = "EMBEDIDS_ALGORITHM_CUSTOM"
                          /\ config.algorithms[k].config.function = NULL_FN)
                  /\ evaluated'[j][4] = "detector"
                     => /\ j < last => DetectorCode(config, k) = EMBEDIDS_OK
                        /\ j = last => ret' = DetectorCode(config, k)
                  /\ (evaluated'[j][4] = "no_detector" /\ j = last)
                     => ret' = EMBEDIDS_OK]_vars

\* the counting detector finds no history buffer and AnalyzeMetric returns its
\* InvalidParam
C19_Witness ==
  /\ call = "embedids_analyze_metric"
  /\ ret = EMBEDIDS_ERROR_INVALID_PARAM
  /\ evaluated = << <<1, 1, 1, "detector">> >>
  /\ metric_arrays[1][1].metric.history = NULL
  /\ metric_arrays[1][1].algorithms[1] = CustomAlgorithm("type_checking_algorithm", 1)
  /\ detector_ctx[1] = 1

C26_GetTrendCheckOrder ==
  [][\A c \in CtxPtrs, n \in Names, t \in {NULL, 1} :
       (call' = "embedids_get_trend" /\ GetTrend(c, n, t))
       => LET refused ==
                IF c = NULL \/ ~Initialized THEN EMBEDIDS_ERROR_NOT_INITIALIZED
                ELSE IF n = NULL_NAME \/ t = NULL THEN EMBEDIDS_ERROR_INVALID_PARAM
                ELSE IF Matching(n) = {} THEN EMBEDIDS_ERROR_METRIC_NOT_FOUND
                ELSE IF ~Matched(n).enabled THEN EMBEDIDS_ERROR_METRIC_DISABLED
                ELSE EMBEDIDS_OK
          IN /\ ret' = refused
             /\ UNCHANGED EngineState
             /\ refused # EMBEDIDS_OK => trend_out' = NoTrend
             /\ refused = EMBEDIDS_OK
                => trend_out' \in {EMBEDIDS_TREND_STABLE, EMBEDIDS_TREND_INCREASING,
                                   EMBEDIDS_TREND_DECREASING}]_vars

\* MetricDisabled, and no trend written, for the disabled "cpu" holding two samples
C26_Witness ==
  /\ call = "embedids_get_trend"
  /\ ret = EMBEDIDS_ERROR_METRIC_DISABLED
  /\ trend_out = NoTrend
  /\ context.system_config = 1
  /\ ~metric_arrays[1][1].metric.enabled
  /\ metric_arrays[1][1].metric.current_size = 2

\* the values of the samples metric 1 of array 1 holds, oldest first
Held ==
  LET log == added[1][1]
      n == metric_arrays[1][1].metric.current_size
  IN [k \in 1..n |-> log[Len(log) - n + k].value]

\* the last n entries of a sequence
LastN(w, n) == [k \in 1..n |-> w[Len(w) - n + k]]

\* the classification the specification gives for a window w of two or three
\* values, oldest first: the average of the consecutive differences against
\* max(|w[1]| * 0.05, 1.0), both sides scaled by 20 * (Len(w) - 1)
TrendReference(type, w) ==
  LET changes == Len(w) - 1
      sum_change == w[Len(w)] - w[1]
      bound20 == IF Abs(w[1]) > 20 THEN Abs(w[1]) ELSE 20
  IN IF type \notin TrendTypes THEN EMBEDIDS_TREND_STABLE
     ELSE IF 20 * Abs(sum_change) < changes * bound20 THEN EMBEDIDS_TREND_STABLE
     ELSE IF sum_change > 0 THEN EMBEDIDS_TREND_INCREASING
     ELSE EMBEDIDS_TREND_DECREASING

TrendReported == call = "embedids_get_trend" /\ ret = EMBEDIDS_OK

\* C22: GetTrend classifies the min(current size, 3) most recently added samples,
\* oldest to newest; samples added before those never affect the result, whether
\* the buffer is not yet full or has wrapped.
C22_TrendOverMostRecentSamples ==
  (TrendReported /\ Len(Held) >= 2)
  => trend_out = TrendReference(metric_arrays[1][1].metric.type,
                                LastN(Held, IF Len(Held) < 3 THEN Len(Held) ELSE 3))

\* C23: for a metric of a supported numeric type holding two or three samples,
\* GetTrend returns Ok and reports Stable if |avgChange| < max(|oldest| * 0.05, 1.0)
\* for avgChange the average consecutive difference of the whole history, otherwise
\* Increasing if avgChange > 0 and Decreasing if not: 50,52,51 is Stable, 10,20,30
\* Increasing, 100,90,80 Decreasing, and an average equal to the threshold is not
\* Stable; for a boolean or enum metric the result is Stable.
C23_TrendClassification ==
  LET type == metric_arrays[1][1].metric.type IN
  (/\ call = "embedids_get_trend"
   /\ Initialized
   /\ Len(Held) \in {2, 3})
  => /\ ret = EMBEDIDS_OK
     /\ trend_out = TrendReference(type, Held)
     /\ type \in {"EMBEDIDS_METRIC_TYPE_BOOL", "EMBEDIDS_METRIC_TYPE_ENUM"}
        => trend_out = EMBEDIDS_TREND_STABLE
     /\ type \in TrendTypes
        => /\ Held = <<50, 52, 51>> => trend_out = EMBEDIDS_TREND_STABLE
           /\ Held = <<10, 20, 30>> => trend_out = EMBEDIDS_TREND_INCREASING
           /\ Held = <<100, 90, 80>> => trend_out = EMBEDIDS_TREND_DECREASING
           /\ Held = <<100, 105>> => trend_out = EMBEDIDS_TREND_INCREASING
           /\ Held = <<100, 105, 110>> => trend_out = EMBEDIDS_TREND_INCREASING
           /\ Held = <<10, 9>> => trend_out = EMBEDIDS_TREND_DECREASING

\* Increasing for 100, 105 held by a metric of capacity 2 that has wrapped: the
\* average change 5 equals the threshold 5% of 100
C23_Witness ==
  /\ TrendReported
  /\ trend_out = EMBEDIDS_TREND_INCREASING
  /\ Held = <<100, 105>>
  /\ Len(added[1][1]) = 4
  /\ metric_arrays[1][1].metric.max_history_size = 2

\* every step of the history w is at least max(5% of the largest |sample|, 1),
\* upwards for dir = 1 and downwards for dir = -1
SteadySteps(w, dir) ==
  \A k \in 1..(Len(w) - 1) :
    \A j \in 1..Len(w) :
      /\ dir * (w[k + 1] - w[k]) >= 1
      /\ 20 * dir * (w[k + 1] - w[k]) >= Abs(w[j])

\* the values of all samples added to metric 1 of array 1 since it was empty
AddedValues == [k \in 1..Len(added[1][1]) |-> added[1][1][k].value]

C25_TrendStableBelowTwoSamples ==
  (/\ call = "embedids_get_trend"
   /\ Initialized
   /\ metric_arrays[1][1].metric.current_size < 2)
  => /\ ret = EMBEDIDS_OK
     /\ trend_out = EMBEDIDS_TREND_STABLE

\* Stable for the one sample a uint32 metric holds
C25_Witness ==
  /\ TrendReported
  /\ trend_out = EMBEDIDS_TREND_STABLE
  /\ metric_arrays[1][1].metric.type = "EMBEDIDS_METRIC_TYPE_UINT32"
  /\ metric_arrays[1][1].metric.current_size = 1
  /\ Held = <<100>>

\* the memory after the step
MemAfter == [context |-> context', system_configs |-> system_configs',
             metric_arrays |-> metric_arrays', buffers |-> buffers',
             detector_ctx |-> detector_ctx']

\* an enabled active metric that holds no sample reads as Stable, and as Ok when all
\* its algorithms are Threshold algorithms
EmptyMetricReads ==
  Initialized
  => \A i \in 1..system_configs[context.system_config].num_active_metrics :
       LET config == metric_arrays[BoundArray][i] IN
       (config.metric.enabled /\ config.metric.current_size = 0)
       => /\ embedids_get_trend(Mem, CTX, config.metric.name, 1)
             = [result |-> EMBEDIDS_OK, written |-> TRUE,
                trend |-> EMBEDIDS_TREND_STABLE]
          /\ (\A k \in 1..config.num_algorithms :
                config.algorithms[k].type = "EMBEDIDS_ALGORITHM_THRESHOLD")
             => embedids_analyze_metric(Mem, CTX, config.metric.name,
                                        << >>).result = EMBEDIDS_OK

\* C21: a successful ResetAllMetrics leaves every active metric, enabled or not,
\* with current size 0, write cursor 0 and value and timestamp zero in every slot up
\* to its capacity; an AnalyzeMetric that follows on a metric with only Threshold
\* algorithms returns Ok and a GetTrend that follows reports Stable.
C21_ResetClearsEveryActiveMetric ==
  /\ []EmptyMetricReads
  /\ [][(/\ call' = "embedids_reset_all_metrics"
         /\ Initialized
         /\ ResetAllMetrics(CTX))
        => /\ ret' = EMBEDIDS_OK
           /\ \A i \in 1..system_configs[context.system_config].num_active_metrics :
                LET before == metric_arrays[BoundArray][i]
                    after == metric_arrays'[BoundArray][i]
                IN /\ after.metric.current_size = 0
                   /\ after.metric.write_index = 0
                   /\ after = [before EXCEPT !.metric.current_size = 0,
                                             !.metric.write_index = 0]
                   /\ \A k \in 1..before.metric.max_history_size :
                        buffers'[before.metric.history][k] = ZeroPoint
                   /\ after.metric.enabled
                      => /\ embedids_get_trend(MemAfter, CTX, after.metric.name, 1)
                            = [result |-> EMBEDIDS_OK, written |-> TRUE,
                               trend |-> EMBEDIDS_TREND_STABLE]
                         /\ (\A k \in 1..after.num_algorithms :
                               after.algorithms[k].type = "EMBEDIDS_ALGORITHM_THRESHOLD")
                            => embedids_analyze_metric(MemAfter, CTX, after.metric.name,
                                                       << >>).result = EMBEDIDS_OK]_vars

\* after a reset the disabled "cpu", whose host array was not initialized, has its
\* two capacity slots zeroed; the slot beyond its capacity is as it was
C21_Witness ==
  /\ call = "embedids_reset_all_metrics"
  /\ ret = EMBEDIDS_OK
  /\ ~metric_arrays[1][1].metric.enabled
  /\ metric_arrays[1][2].metric.enabled
  /\ buffers[1] = <<ZeroPoint, ZeroPoint, Garbage>>
  /\ buffers[2] = <<ZeroPoint, Garbage>>

EngineCalls == {"embedids_init", "embedids_add_datapoint", "embedids_analyze_metric",
                "embedids_analyze_all", "embedids_get_trend",
                "embedids_reset_all_metrics", "embedids_validate_config"}

C28_ValidateConfigResult ==
  [][\A config \in {NULL} \cup DOMAIN system_configs :
       (call' = "embedids_validate_config" /\ ValidateConfig(config))
       => /\ ret' = IF config = NULL THEN EMBEDIDS_ERROR_INVALID_PARAM
                    ELSE IF system_configs[config].metrics = NULL
                    THEN EMBEDIDS_ERROR_INVALID_PARAM
                    ELSE IF system_configs[config].max_metrics \notin
                              1..EMBEDIDS_MAX_METRICS
                    THEN EMBEDIDS_ERROR_CONFIG_INVALID
                    ELSE EMBEDIDS_OK
          /\ UNCHANGED EngineState
          /\ \A other \in DOMAIN system_configs :
               (/\ config # NULL
                /\ system_configs[other].metrics = system_configs[config].metrics
                /\ system_configs[other].max_metrics = system_configs[config].max_metrics)
               => embedids_validate_config(Mem, other) = ret']_vars

\* InvalidParam for the zeroed configuration: no metrics reference, ceiling 0
C28_Witness ==
  /\ call = "embedids_validate_config"
  /\ validated = 3
  /\ system_configs[3] = ZeroedSystemConfig
  /\ ret = EMBEDIDS_ERROR_INVALID_PARAM

\* C30: on a configuration with only Threshold and Trend algorithms AnalyzeMetric,
\* AnalyzeAll and GetTrend are pure reads: the context, every metric, history
\* buffer, current size, write cursor and enabled flag stay as they were, and the
\* same call made again returns the same result.
C30_AnalysisIsPureRead ==
  [][/\ \A c \in CtxPtrs, n \in Names :
          (call' = "embedids_analyze_metric" /\ AnalyzeMetric(c, n))
          => /\ UNCHANGED EngineState
             /\ embedids_analyze_metric(MemAfter, c, n, << >>).result = ret'
     /\ \A c \in CtxPtrs :
          (call' = "embedids_analyze_all" /\ AnalyzeAll(c))
          => /\ UNCHANGED EngineState
             /\ embedids_analyze_all(MemAfter, c).result = ret'
     /\ \A c \in CtxPtrs, n \in Names, t \in {NULL, 1} :
          (call' = "embedids_get_trend" /\ GetTrend(c, n, t))
          => /\ UNCHANGED EngineState
             /\ embedids_get_trend(MemAfter, c, n, t).result = ret']_vars

\* ThresholdExceeded from AnalyzeAll for the two samples "cpu" still holds
C30_Witness ==
  /\ call = "embedids_analyze_all"
  /\ ret = EMBEDIDS_ERROR_THRESHOLD_EXCEEDED
  /\ metric_arrays[1][1].metric.current_size = 2
  /\ Len(added[1][1]) = 2
  /\ buffers[1][2].value = added[1][1][2].value

\* C29: GetErrorString maps every declared result code to a non-empty string, two
\* different declared codes to two different strings, and every value outside the
\* enumeration to "Unknown error", which no declared code maps to.
C29_ErrorStrings ==
  call = "embedids_get_error_string"
  => /\ described \in DeclaredResults
        => /\ ret # ""
           /\ ret # "Unknown error"
           /\ \A other \in DeclaredResults \ {described} :
                embedids_get_error_string(other) # ret
     /\ described \notin DeclaredResults => ret = "Unknown error"

\* the description of the last enumerator, asked for while the engine holds samples
C29_Witness ==
  /\ call = "embedids_get_error_string"
  /\ described = "EMBEDIDS_ERROR_THREAD_UNSAFE"
  /\ ret = "Thread safety violation"
  /\ Initialized
  /\ TotalAdded = MaxSamples

\* C34: in every state reached from an empty metric, a metric that is not full has
\* its write cursor equal to its current size and its samples in slots
\* 0..current size-1 in insertion order; a metric holding a sample has the sample
\* added last in slot (write cursor - 1) mod capacity.
C34_CursorFollowsSizeUntilFull ==
  LET m == RingMetric
      C == m.max_history_size
      n == Len(added[1][1])
  IN /\ m.current_size < C
        => /\ m.write_index = m.current_size
           /\ n = m.current_size
           /\ \A k \in 1..m.current_size : buffers[m.history][k] = added[1][1][k]
     /\ m.current_size > 0
        => /\ n > 0
           /\ buffers[m.history][((m.write_index - 1) % C) + 1] = added[1][1][n]

\* two samples in a ring of three: slots 0 and 1 hold them in order, slot 2 is empty
C34_Witness ==
  /\ call = "embedids_add_datapoint"
  /\ ret = EMBEDIDS_OK
  /\ RingMetric.max_history_size = 3
  /\ RingMetric.current_size = 2
  /\ RingMetric.write_index = 2
  /\ buffers[1][1] = [value |-> 2, timestamp_ms |-> 1000]
  /\ buffers[1][2] = [value |-> 1, timestamp_ms |-> 2000]
  /\ buffers[1][3] = ZeroPoint

\* C35: an AddDataPoint that returns a code other than Ok leaves every metric's
\* history buffer, current size and write cursor unchanged; one that returns Ok
\* changes only the named metric: the context and every other metric's
\* configuration, buffer, size and cursor are unchanged.
C35_AddDataPointFrame ==
  [][\A c \in CtxPtrs, n \in Names, v \in Values :
       (call' = "embedids_add_datapoint" /\ AddDataPoint(c, n, v, 1000))
       => /\ ret' # EMBEDIDS_OK
             => /\ ret' \in {EMBEDIDS_ERROR_NOT_INITIALIZED, EMBEDIDS_ERROR_INVALID_PARAM,
                             EMBEDIDS_ERROR_METRIC_NOT_FOUND,
                             EMBEDIDS_ERROR_METRIC_DISABLED}
                /\ UNCHANGED EngineState
          /\ ret' = EMBEDIDS_OK
             => LET a == BoundArray
                    i == find_metric_config(Mem, c, n)
                    named == metric_arrays[a][i]
                IN /\ named.metric.name = n
                   /\ UNCHANGED <<context, system_configs, detector_ctx>>
                   /\ \A b \in DOMAIN metric_arrays :
                        \A j \in DOMAIN metric_arrays[b] :
                          <<b, j>> # <<a, i>>
                          => metric_arrays'[b][j] = metric_arrays[b][j]
                   /\ \A h \in DOMAIN buffers :
                        h # named.metric.history => buffers'[h] = buffers[h]
                   /\ \E size \in 1..named.metric.max_history_size,
                         cursor \in 0..(named.metric.max_history_size - 1) :
                        metric_arrays'[a][i] =
                          [named EXCEPT !.metric.current_size = size,
                                        !.metric.write_index = cursor]]_vars

\* a sample accepted for "cpu" of the first configuration while "cpu" of the second
\* configuration, filled through an earlier binding of the context, keeps its sample
C35_Witness ==
  /\ call = "embedids_add_datapoint"
  /\ ret = EMBEDIDS_OK
  /\ context.system_config = 1
  /\ metric_arrays[1][1].metric.current_size = 1
  /\ metric_arrays[2][1].metric.current_size = 1
  /\ buffers[2][1].value = 2
  /\ buffers[1][1].value = 1

NameByte(name, k) == IF k <= Len(name) THEN name[k] ELSE "NUL"

\* the active entries of the bound configuration whose stored name has the bytes of
\* the query at each of the first EMBEDIDS_MAX_METRIC_NAME_LEN positions
Resolving(n) ==
  {i \in 1..system_configs[context.system_config].num_active_metrics :
     \A k \in 1..EMBEDIDS_MAX_METRIC_NAME_LEN :
       NameByte(metric_arrays[BoundArray][i].metric.name, k) = NameByte(n, k)}

\* an entry that no name reaches, at an inactive index or behind an entry it
\* matches, holds no sample
UnreachableEntriesStayEmpty ==
  \A j \in DOMAIN metric_arrays[1] :
    (\/ j > system_configs[1].num_active_metrics
     \/ \E i \in 1..(j - 1) :
          \A k \in 1..EMBEDIDS_MAX_METRIC_NAME_LEN :
            NameByte(metric_arrays[1][i].metric.name, k)
              = NameByte(metric_arrays[1][j].metric.name, k))
    => /\ metric_arrays[1][j].metric.current_size = 0
       /\ metric_arrays[1][j].metric.write_index = 0
       /\ buffers[metric_arrays[1][j].metric.history] = Zeros(2)
       /\ added[1][j] = << >>

\* C38: AddDataPoint, AnalyzeMetric and GetTrend resolve a name, case-sensitively,
\* to the lowest-index entry among the first num_active_metrics entries whose
\* stored name equals it in the first maximum-name-length bytes: an entry at an
\* inactive index is not matched (MetricNotFound), a name differing in letter case
\* does not match, and of two active entries matching a query the lower-index one
\* gets every sample and the other never holds data.
C38_LookupResolvesLowestActiveMatch ==
  /\ []UnreachableEntriesStayEmpty
  /\ [][\A n \in LookupNames :
          LET hits == Resolving(n)
              i == MinOf(hits)
          IN /\ (/\ call' = "embedids_add_datapoint"
                 /\ context.initialized
                 /\ \E v \in Values : AddDataPoint(CTX, n, v, 1000))
                => IF hits = {}
                   THEN ret' = EMBEDIDS_ERROR_METRIC_NOT_FOUND /\ UNCHANGED EngineState
                   ELSE IF ~metric_arrays[1][i].metric.enabled
                   THEN ret' = EMBEDIDS_ERROR_METRIC_DISABLED /\ UNCHANGED EngineState
                   ELSE /\ ret' = EMBEDIDS_OK
                        /\ Len(added'[1][i]) = Len(added[1][i]) + 1
                        /\ metric_arrays'[1][i].metric.write_index
                             = (metric_arrays[1][i].metric.write_index + 1) % 2
                        /\ \A j \in DOMAIN metric_arrays[1] :
                             j # i => /\ metric_arrays'[1][j] = metric_arrays[1][j]
                                      /\ buffers'[j] = buffers[j]
             /\ (/\ call' = "embedids_analyze_metric"
                 /\ context.initialized
                 /\ AnalyzeMetric(CTX, n))
                => IF hits = {}
                   THEN ret' = EMBEDIDS_ERROR_METRIC_NOT_FOUND /\ evaluated' = << >>
                   ELSE IF ~metric_arrays[1][i].metric.enabled
                   THEN ret' = EMBEDIDS_ERROR_METRIC_DISABLED /\ evaluated' = << >>
                   ELSE /\ evaluated' = << <<1, i, 1, "builtin">> >>
                        /\ ret' = ThresholdReference(
                                    metric_arrays[1][i].metric.type,
                                    Len(added[1][i]), LatestAdded(1, i),
                                    metric_arrays[1][i].algorithms[1].config)
             /\ (/\ call' = "embedids_get_trend"
                 /\ context.initialized
                 /\ GetTrend(CTX, n, 1))
                => IF hits = {}
                   THEN ret' = EMBEDIDS_ERROR_METRIC_NOT_FOUND /\ trend_out' = NoTrend
                   ELSE IF ~metric_arrays[1][i].metric.enabled
                   THEN ret' = EMBEDIDS_ERROR_METRIC_DISABLED /\ trend_out' = NoTrend
                   ELSE /\ ret' = EMBEDIDS_OK
                        /\ trend_out' =
                             LET log == added[1][i]
                                 m == Len(log)
                             IN IF m < 2 \/ log[m - 1].value = log[m].value
                                THEN EMBEDIDS_TREND_STABLE
                                ELSE IF log[m - 1].value < log[m].value
                                THEN EMBEDIDS_TREND_INCREASING
                                ELSE EMBEDIDS_TREND_DECREASING]_vars

\* two samples sent to "cpu" when the second active entry is also named "cpu": the
\* first entry holds both
C38_Witness ==
  /\ call = "embedids_add_datapoint"
  /\ ret = EMBEDIDS_OK
  /\ metric_arrays[1][2].metric.name = cpu_usage
  /\ system_configs[1].num_active_metrics = 2
  /\ Len(metric_arrays[1]) = 3
  /\ metric_arrays[1][1].metric.current_size = 2
  /\ metric_arrays[1][2].metric.current_size = 0


\* thread t is in a call of op
InCall(t, op) == threads[t].op = op /\ threads[t].pc # "idle"

\* thread t has returned from a call of op
ReturnedFrom(t, op) == threads[t].op = op /\ threads[t].pc = "idle"

\* C33: every call of embedids_add_datapoint, embedids_analyze_metric,
\* embedids_analyze_all, embedids_get_trend and embedids_reset_all_metrics (and of
\* embedids_init and embedids_cleanup) that a thread is in has a next statement
\* to execute in every state, and eventually returns a result code of
\* embedids_result_t, on a configuration of two metrics with capacities 2 and 1
\* whose custom detector returns
C33_EveryCallReturns ==
  /\ [](\A t \in 1..2 : threads[t].pc # "idle" => ENABLED Continue(t))
  /\ \A t \in 1..2 :
       threads[t].pc # "idle" ~>
         (threads[t].pc = "idle" /\ threads[t].result \in DeclaredResults)

\* embedids_analyze_all has gone through both metrics (the threshold and trend
\* algorithms of the first pass on its two samples), run the detector of the
\* second and returned what it returned, while the other thread is in a call
C33_Witness ==
  /\ ReturnedFrom(1, "embedids_analyze_all")
  /\ threads[1].result = EMBEDIDS_ERROR_CUSTOM_DETECTION
  /\ threads[1].ctx # threads[2].ctx
  /\ threads[2].pc # "idle"

\* both threads pass the same context, and each has made one call of
\* embedids_add_datapoint, for the same metric, and returned
TwoAddsReturned ==
  /\ threads[1].ctx = threads[2].ctx
  /\ \A t \in 1..2 : ReturnedFrom(t, "embedids_add_datapoint") /\ threads[t].begun = 1
  /\ threads[1].name = threads[2].name

\* the memory after the calls of thread t alone followed by the call of thread u
OneAfterTheOther(t, u) == Alone(threads[t].solo, threads[u]).mem

\* the memory is what neither order of the two calls leaves
DiffersFromBothOrders ==
  /\ ThreadMem(1) # OneAfterTheOther(1, 2)
  /\ ThreadMem(1) # OneAfterTheOther(2, 1)

\* the metric both threads named
RacedMetric ==
  LET a == system_configs[context.system_config].metrics
  IN metric_arrays[a][find_metric_config(ThreadMem(1), CTX, threads[1].name)].metric

\* the thread whose call returned first
FirstReturned ==
  LET a == system_configs[context.system_config].metrics
      i == find_metric_config(ThreadMem(1), CTX, threads[1].name)
  IN CHOOSE t \in 1..2 : added[a][i][1].value = threads[t].value

\* the samples of the two calls that the buffer holds
SamplesKept ==
  {t \in 1..2 :
     \E k \in DOMAIN buffers[RacedMetric.history] :
       buffers[RacedMetric.history][k] =
         [value |-> threads[t].value, timestamp_ms |-> threads[t].timestamp_ms]}

\* fewer of the two samples are held than the capacity allows
SampleLost ==
  LET room == IF RacedMetric.max_history_size < 2 THEN RacedMetric.max_history_size ELSE 2
  IN Cardinality(SamplesKept) < room

SizeExceedsCapacity == RacedMetric.current_size > RacedMetric.max_history_size

\* current_size and write_index are not those of a ring that took two samples
SizeAndCursorOff ==
  \/ RacedMetric.current_size #
       (IF RacedMetric.max_history_size < 2 THEN RacedMetric.max_history_size ELSE 2)
  \/ RacedMetric.write_index # 2 % RacedMetric.max_history_size

\* C32: after two embedids_add_datapoint calls by two threads on the same
\* metric of the same context, both returning EMBEDIDS_OK, the memory is what one
\* of the two sequential orders leaves unless the statements of the calls were
\* interleaved, and the order the calls were made in when the second began after
\* the first returned; when it differs from both orders, one of the two samples is lost,
\* or current_size exceeds max_history_size, or current_size and write_index do not
\* describe the samples stored
C32_UnsynchronizedAddsDiverge ==
  TwoAddsReturned =>
    /\ threads[1].result = EMBEDIDS_OK /\ threads[2].result = EMBEDIDS_OK
    /\ ~(threads[1].overlapped \/ threads[2].overlapped) =>
         ThreadMem(1) = OneAfterTheOther(FirstReturned, 3 - FirstReturned)
    /\ DiffersFromBothOrders =>
         /\ threads[1].overlapped /\ threads[2].overlapped
         /\ SampleLost \/ SizeExceedsCapacity \/ SizeAndCursorOff

\* the lost update: both calls stored into slot 0 of "cpu" and both advanced
\* write_index and current_size from 0 to 1
C32_Witness ==
  /\ TwoAddsReturned
  /\ DiffersFromBothOrders
  /\ threads[1].name = cpu_usage
  /\ SampleLost
  /\ RacedMetric.current_size = 1
  /\ RacedMetric.write_index = 1

\* each thread passes a context of its own, bound to a configuration of its own
OwnContexts ==
  /\ threads[1].ctx # threads[2].ctx
  /\ threads[1].config # threads[2].config

\* what thread t can reach in memory M: its context, the metrics of its
\* configuration and their buffers
ThreadPart(M, t) ==
  LET metrics == M.metric_arrays[M.system_configs[threads[t].config].metrics]
  IN [context |-> M.context,
      metrics |-> metrics,
      buffers |-> [i \in DOMAIN metrics |-> M.buffers[metrics[i].metric.history]]]

\* C31: two threads, each passing its own context bound to its own
\* configuration (no metric, buffer or detector in common): whenever a thread has
\* returned from a call, under any interleaving of the statements of the two
\* threads, the result code and the trend it got are those the same call
\* sequence gives with no other thread, and its context, metrics and buffers are
\* as that sequence alone leaves them
C31_OwnContextsAreIndependent ==
  OwnContexts =>
    \A t \in 1..2 :
      threads[t].pc = "idle" =>
        /\ threads[t].result = threads[t].expect.result
        /\ threads[t].trend = threads[t].expect.trend
        /\ ThreadPart(ThreadMem(t), t) = ThreadPart(threads[t].solo, t)

\* both threads added a sample to the "cpu" of their own configuration in
\* overlapping calls; each buffer holds the sample of its thread
C31_Witness ==
  /\ OwnContexts
  /\ \A t \in 1..2 :
       /\ ReturnedFrom(t, "embedids_add_datapoint")
       /\ threads[t].overlapped
       /\ threads[t].name = cpu_usage
       /\ threads[t].result = EMBEDIDS_OK
  /\ buffers[1][1] = [value |-> 1, timestamp_ms |-> 1000]
  /\ buffers[3][1] = [value |-> 2, timestamp_ms |-> 2000]

\* metric i of configuration 1 holds the samples accepted last, through
\* whichever context they were added
HistoryHoldsAccepted(i) ==
  LET m == metric_arrays[1][i].metric
      n == Len(added[1][i])
      C == m.max_history_size
      held == IF n < C THEN n ELSE C
  IN /\ m.current_size = held
     /\ m.write_index = n % C
     /\ \A k \in 1..held :
          buffers[m.history][((m.write_index - k) % C) + 1] = added[1][i][n - k + 1]

\* no thread is in a call
Quiescent == \A t \in 1..2 : threads[t].pc = "idle"

\* C36: two contexts bound to the same configuration, used one call at a time:
\* embedids_init (and embedids_cleanup) leaves every metric's buffer,
\* current_size and write_index as they were; between calls each metric holds the
\* samples accepted last, whatever contexts added them and however often the
\* contexts were cleaned up and initialized again since; and embedids_analyze_metric
\* through an initialized context judges the sample accepted last, also when
\* another context added it or the context was initialized again after it
C36_HistoryBelongsToConfiguration ==
  /\ [](Quiescent => \A i \in 1..2 : HistoryHoldsAccepted(i))
  /\ [][\A t \in 1..2 :
          /\ (InCall(t, "embedids_init") \/ InCall(t, "embedids_cleanup"))
             /\ threads'[t].pc = "idle"
             => /\ metric_arrays' = metric_arrays
                /\ buffers' = buffers
                /\ added' = added
          /\ InCall(t, "embedids_analyze_metric")
             /\ threads[t].name = cpu_usage
             /\ threads'[t].pc = "idle"
             => threads'[t].result =
                  IF ~ThreadMem(t).context.initialized
                  THEN EMBEDIDS_ERROR_NOT_INITIALIZED
                  ELSE ThresholdReference(metric_arrays[1][1].metric.type,
                                          Len(added[1][1]), LatestAdded(1, 1),
                                          metric_arrays[1][1].algorithms[1].config)]_vars

\* thread 2 added the sample 2 through context 2 and cleaned context 2 up;
\* thread 1, which added nothing, had context 1 initialized and gets
\* THRESHOLD_EXCEEDED for it
C36_Witness ==
  /\ threads[1].config = threads[2].config
  /\ ReturnedFrom(1, "embedids_analyze_metric")
  /\ threads[1].begun = 1
  /\ threads[1].result = EMBEDIDS_ERROR_THRESHOLD_EXCEEDED
  /\ threads[2].lifecycles = 1
  /\ ~context2.initialized
  /\ added[1][1] = << [value |-> 2, timestamp_ms |-> 2000] >>
  /\ buffers[1][1] = [value |-> 2, timestamp_ms |-> 2000]
====
